---- MODULE Spec2Model ----
(***************************************************************************)
(* Portfolio analyzer: the test decision engine (plan_tests,               *)
(* _create_test_plan), the scoring pipeline and gap analyzer               *)
(* (analyze_portfolio, analyze_gaps), alignment, eligibility and task      *)
(* regeneration of backend/src/portfolio/service.py, as pure functions     *)
(* applied to a request.  A request is constructed fresh (Init), the       *)
(* handler runs as one step and leaves its response; nothing persists      *)
(* between calls.  The generative service is part of the environment.      *)
(*                                                                         *)
(* Python values:                                                          *)
(*   Optional[x]        None is <<>>, a present value v is <<v>>           *)
(*   list               a sequence                                         *)
(*   date               a day number                                       *)
(*   ISO date string    a record [kind, day] (see ParseDate)               *)
(*   float              a fixed-point integer (see the gap analyzer)       *)
(***************************************************************************)
EXTENDS Integers, Sequences, FiniteSets, TLC

VARIABLES op, req, today, gpt, resp, lv, pc

vars == <<op, req, today, gpt, resp, lv, pc>>

None == <<>>
Some(v) == <<v>>
Val(o) == o[1]

\* the generative service as the module sees it: `client` is None without an
\* API key
Unavailable == [mode |-> "unavailable"]

Max(a, b) == IF a >= b THEN a ELSE b
Min(a, b) == IF a <= b THEN a ELSE b

(***************************************************************************)
(* Program constants                                                       *)
(***************************************************************************)
SAT_TARGET_DELTA == 60
ACT_TARGET_DELTA == 2

\* plan_tests: `runway_weeks >= 8 and req.weekly_hours_cap >= 3`
MIN_RUNWAY_WEEKS == 8
MIN_WEEKLY_HOURS == 3

\* _create_test_plan: `max(20, min(hours_needed, 60))`, first task 4 hours
MIN_PREP_HOURS == 20
MAX_PREP_HOURS == 60
DIAGNOSTIC_HOURS == 4

(***************************************************************************)
(* Bounds of the model                                                     *)
(***************************************************************************)
\* date.today() of the call, as a day number
Today == 100
\* longest application_rounds list of a school context
MaxRounds == 1

(***************************************************************************)
(* Request domains (models.py)                                             *)
(***************************************************************************)
TestUse == {"required", "recommended", "considered_if_submitted", "not_considered"}
OptionalUse == {"recommended", "considered_if_submitted"}

\* ISO date strings: "YYYY-MM-DD" (kind "date"), "YYYY-MM-DDT..." (kind
\* "datetime", the string holds a 'T'), anything else (kind "bad").
DateStr(k, d) == [kind |-> k, day |-> d]

\* TestPolicy.latest_submission_date: a week in the past, 3 weeks ahead,
\* exactly 8 weeks ahead, and a string that does not parse.
PolicyDates ==
    {None, Some(DateStr("date", 93)), Some(DateStr("date", 121)),
     Some(DateStr("datetime", 156)), Some(DateStr("bad", 0))}

\* ApplicationRound.closing_date: 3 weeks ahead, 20 weeks ahead, or none.
ClosingDates == {None, Some(DateStr("date", 121)), Some(DateStr("date", 240))}

TestPolicies ==
    {None} \cup
    {Some([admission_use |-> u, latest_submission_date |-> d]) :
        u \in TestUse, d \in PolicyDates}

RECURSIVE SeqsUpTo(_, _)
SeqsUpTo(S, n) ==
    IF n = 0 THEN {<<>>}
    ELSE LET shorter == SeqsUpTo(S, n - 1)
         IN  shorter \cup {Append(s, x) : s \in {t \in shorter : Len(t) = n - 1}, x \in S}

ApplicationRounds ==
    SeqsUpTo({[closing_date |-> c] : c \in ClosingDates}, MaxRounds)

\* mid50_scores[key]: a missing dict, a missing key and an empty list are all
\* falsy to `mid50.get(key)` and are the empty sequence here.
SatBands == {<<>>, <<1200, 1350, 1500>>, <<1300>>}
ActBands == {<<>>, <<24, 30, 34>>}

\* StudentTests.sat / .act: no TestScore, a TestScore without a score, scores.
SatTests == {None, Some([score |-> None]), Some([score |-> Some(1290)]),
             Some([score |-> Some(1350)]), Some([score |-> Some(1400)])}
ActTests == {None, Some([score |-> Some(20)]), Some([score |-> Some(30)])}

\* TestPlanRequest.weekly_hours_cap: Field(..., ge=2, le=25)
HourCaps == {2, 3, 5}

TestPlanRequests ==
    [student_profile : [tests : [sat : SatTests, act : ActTests]],
     school_context  : [test_policy : TestPolicies,
                        application_rounds : ApplicationRounds,
                        mid50_scores : [sat_composite : SatBands,
                                        act_composite : ActBands]],
     weekly_hours_cap : HourCaps]

(***************************************************************************)
(* Helpers of plan_tests                                                   *)
(***************************************************************************)
\* `x.score if x and x.score else None`: a score of 0 is falsy too.
ScoreOf(t) ==
    IF t # None /\ Val(t).score # None /\ Val(Val(t).score) # 0
    THEN Val(t).score ELSE None

\* `band[1] if len(band) > 1 else band[0]` (0-based in the source)
P50Of(band) == IF Len(band) > 1 THEN band[2] ELSE band[1]

\* datetime.fromisoformat(...).date() when the string holds a 'T',
\* datetime.strptime(s, '%Y-%m-%d').date() otherwise; None when it raises.
ParseDate(s) ==
    IF s.kind \in {"date", "datetime"} THEN Some(s.day) ELSE None

\* `policy.latest_submission_date`, else the first round's closing date
LatestDateStr(ctx) ==
    LET policy == Val(ctx.test_policy)
    IN  IF policy.latest_submission_date # None
        THEN policy.latest_submission_date
        ELSE IF Len(ctx.application_rounds) > 0
             THEN ctx.application_rounds[1].closing_date
             ELSE None

\* `max(0, (latest_date - date.today()).days // 7)`, 0 when there is no date
\* or it does not parse
RunwayWeeks(ctx, now) ==
    LET s == LatestDateStr(ctx)
    IN  IF s = None THEN 0
        ELSE LET d == ParseDate(Val(s))
             IN  IF d = None THEN 0
                 ELSE Max(0, (Val(d) - now) \div 7)

\* the test plan_tests compares for SEND: SAT when there is an SAT score and
\* an SAT band, else ACT when there is an ACT score and an ACT band
SelectTest(profile, ctx) ==
    LET mid50 == ctx.mid50_scores
        baseline_sat == ScoreOf(profile.tests.sat)
        baseline_act == ScoreOf(profile.tests.act)
    IN  IF baseline_sat # None /\ mid50.sat_composite # <<>>
        THEN [test_type |-> Some("SAT"), baseline |-> baseline_sat,
              p50 |-> Some(P50Of(mid50.sat_composite))]
        ELSE IF baseline_act # None /\ mid50.act_composite # <<>>
        THEN [test_type |-> Some("ACT"), baseline |-> baseline_act,
              p50 |-> Some(P50Of(mid50.act_composite))]
        ELSE [test_type |-> None, baseline |-> None, p50 |-> None]

(***************************************************************************)
(* _create_test_plan                                                       *)
(***************************************************************************)
\* the test the plan is sized for: SAT when the school has an SAT band,
\* else ACT when it has an ACT band (the student's scores play no part)
PlanTest(profile, ctx) ==
    LET mid50 == ctx.mid50_scores
    IN  IF mid50.sat_composite # <<>>
        THEN [test_type |-> Some("SAT"), baseline |-> ScoreOf(profile.tests.sat),
              p50 |-> Some(P50Of(mid50.sat_composite)),
              target_delta |-> Some(SAT_TARGET_DELTA)]
        ELSE IF mid50.act_composite # <<>>
        THEN [test_type |-> Some("ACT"), baseline |-> ScoreOf(profile.tests.act),
              p50 |-> Some(P50Of(mid50.act_composite)),
              target_delta |-> Some(ACT_TARGET_DELTA)]
        ELSE [test_type |-> None, baseline |-> None, p50 |-> None,
              target_delta |-> None]

\* faulty variant: a missing score counts as missing band data
NoPlanData_OrNoScore(sel) ==
    sel.test_type = None \/ sel.p50 = None \/ Val(sel.p50) = 0 \/ sel.baseline = None

\* `if not test_type or not p50`
NoPlanData(sel) == sel.test_type = None \/ sel.p50 = None \/ Val(sel.p50) = 0

\* faulty variant: the target is not capped at p50
TargetScore_NoCap(sel) ==
    IF sel.baseline # None
    THEN Val(sel.baseline) + Val(sel.target_delta)
    ELSE Val(sel.p50)

\* `target_score = p50; if baseline: target_score = min(baseline + target_delta, p50)`
TargetScore(sel) ==
    IF sel.baseline # None
    THEN Min(Val(sel.baseline) + Val(sel.target_delta), Val(sel.p50))
    ELSE Val(sel.p50)

\* `target_delta * (1 if test_type == "SAT" else 2)`
HourCost(test_type) == IF test_type = "SAT" THEN 1 ELSE 2

\* `max(20, min(hours_needed, 60))`
HoursNeeded(sel) ==
    Max(MIN_PREP_HOURS,
        Min(Val(sel.target_delta) * HourCost(Val(sel.test_type)), MAX_PREP_HOURS))

\* faulty variant: the second task takes the whole budget
PlanTasks_FullBudget(sel, ctx, reason) ==
    LET hours_needed == HoursNeeded(sel)
        crit == IF reason = "required" THEN "high" ELSE "medium"
        deadline == LatestDateStr(ctx)
    IN  << [id |-> "test_prep_1", test_type |-> Val(sel.test_type),
            duration_hours |-> DIAGNOSTIC_HOURS, buffer_days |-> 0,
            deps |-> <<>>, criticality |-> crit, deadline |-> deadline],
           [id |-> "test_prep_2", test_type |-> Val(sel.test_type),
            duration_hours |-> hours_needed, buffer_days |-> 0,
            deps |-> <<"test_prep_1">>, criticality |-> crit, deadline |-> deadline] >>

\* the two TaskTemplate objects of a plan
PlanTasks(sel, ctx, reason) ==
    LET hours_needed == HoursNeeded(sel)
        crit == IF reason = "required" THEN "high" ELSE "medium"
        deadline == LatestDateStr(ctx)
    IN  << [id |-> "test_prep_1", test_type |-> Val(sel.test_type),
            duration_hours |-> DIAGNOSTIC_HOURS, buffer_days |-> 0,
            deps |-> <<>>, criticality |-> crit, deadline |-> deadline],
           [id |-> "test_prep_2", test_type |-> Val(sel.test_type),
            duration_hours |-> hours_needed - DIAGNOSTIC_HOURS, buffer_days |-> 0,
            deps |-> <<"test_prep_1">>, criticality |-> crit, deadline |-> deadline] >>

\* TestPlanResponse; the rationale is the record of the values its text holds
CreateTestPlan(profile, ctx, weekly_hours, reason) ==
    LET sel == PlanTest(profile, ctx)
    IN  IF NoPlanData(sel)
        THEN [decision |-> "OPTIONAL",
              rationale |-> [text |-> "No test scores or mid50 data available"],
              tasks |-> None]
        ELSE [decision |-> "PLAN",
              rationale |-> [text |-> "plan", test_type |-> Val(sel.test_type),
                             reason |-> reason, target_score |-> TargetScore(sel),
                             baseline |-> sel.baseline, p50 |-> Val(sel.p50),
                             hours_needed |-> HoursNeeded(sel)],
              tasks |-> Some(PlanTasks(sel, ctx, reason))]

(***************************************************************************)
(* plan_tests                                                              *)
(***************************************************************************)
\* `if baseline and p50 and baseline >= p50`
MeetsP50(sel) ==
    /\ sel.baseline # None
    /\ sel.p50 # None /\ Val(sel.p50) # 0
    /\ Val(sel.baseline) >= Val(sel.p50)

\* faulty variant: either condition suffices
EnoughRunway_Or(runway_weeks, weekly_hours_cap) ==
    runway_weeks >= MIN_RUNWAY_WEEKS \/ weekly_hours_cap >= MIN_WEEKLY_HOURS

\* `if runway_weeks >= 8 and req.weekly_hours_cap >= 3`
EnoughRunway(runway_weeks, weekly_hours_cap) ==
    runway_weeks >= MIN_RUNWAY_WEEKS /\ weekly_hours_cap >= MIN_WEEKLY_HOURS

\* `if not policy` / `policy.admission_use == "not_considered"` /
\* `policy.admission_use == "required"`
NoPolicy(policy) == policy = None
\* faulty variant: the not_considered policy is not recognised
IsNotConsidered_Typo(policy) == Val(policy).admission_use = "not considered"


IsNotConsidered(policy) == Val(policy).admission_use = "not_considered"
IsRequired(policy) == Val(policy).admission_use = "required"

\* faulty variant: a qualifying score preempts planning under a required policy
RequiredDecision_SendPreempts(profile, ctx, weekly_hours_cap) ==
    IF MeetsP50(SelectTest(profile, ctx))
    THEN [decision |-> "SEND", rationale |-> [text |-> "meets or exceeds p50"],
          tasks |-> None]
    ELSE CreateTestPlan(profile, ctx, weekly_hours_cap, "required")

\* the `required` branch: `return _create_test_plan(profile, ctx, cap, "required")`
RequiredDecision(profile, ctx, weekly_hours_cap) ==
    CreateTestPlan(profile, ctx, weekly_hours_cap, "required")

plan_tests(r, now) ==
    LET profile == r.student_profile
        ctx     == r.school_context
        policy  == ctx.test_policy
        sel     == SelectTest(profile, ctx)
        runway_weeks == RunwayWeeks(ctx, now)
    IN  IF NoPolicy(policy)
        THEN [decision |-> "SKIP",
              rationale |-> [text |-> "No test policy specified"], tasks |-> None]
        ELSE IF IsNotConsidered(policy)
        THEN [decision |-> "SKIP",
              rationale |-> [text |-> "Tests not considered by this school"],
              tasks |-> None]
        ELSE IF IsRequired(policy)
        THEN RequiredDecision(profile, ctx, r.weekly_hours_cap)
        ELSE IF MeetsP50(sel)
        THEN [decision |-> "SEND",
              rationale |-> [text |-> "meets or exceeds p50",
                             test_type |-> Val(sel.test_type),
                             baseline |-> Val(sel.baseline), p50 |-> Val(sel.p50)],
              tasks |-> None]
        ELSE IF EnoughRunway(runway_weeks, r.weekly_hours_cap)
        THEN CreateTestPlan(profile, ctx, r.weekly_hours_cap, "optional")
        ELSE [decision |-> "SKIP",
              rationale |-> [text |-> "Insufficient runway or hours",
                             runway_weeks |-> runway_weeks,
                             hours |-> r.weekly_hours_cap],
              tasks |-> None]

\* the locals plan_tests holds when it reaches the runway computation
\* (optional policy, no SEND); None on the paths that return before it
PlanTestsLocals(r, now) ==
    LET ctx == r.school_context
        policy == ctx.test_policy
    IN  IF \/ NoPolicy(policy) \/ IsNotConsidered(policy) \/ IsRequired(policy)
           \/ MeetsP50(SelectTest(r.student_profile, ctx))
        THEN None
        ELSE Some([runway_weeks |-> RunwayWeeks(ctx, now)])

(***************************************************************************)
(* The state machine: one request, one call                                *)
(***************************************************************************)
InitPlan ==
    /\ op = "plan_tests"
    /\ req \in TestPlanRequests
    /\ today = Today
    /\ gpt = Unavailable
    /\ resp = None
    /\ lv = None
    /\ pc = "call"

\* POST /tests/plan
PlanTests ==
    /\ pc = "call"
    /\ op = "plan_tests"
    /\ resp' = Some(plan_tests(req, today))
    /\ lv' = PlanTestsLocals(req, today)
    /\ pc' = "done"
    /\ UNCHANGED <<op, req, today, gpt>>

NextPlan == PlanTests

SpecPlan == InitPlan /\ [][NextPlan]_vars

(***************************************************************************)
(* Properties of plan_tests                                                *)
(***************************************************************************)
PlanDone == pc = "done" /\ op = "plan_tests"
Decision == Val(resp).decision
Policy == req.school_context.test_policy
AdmissionUse == Val(Policy).admission_use
Bands == req.school_context.mid50_scores
SatScore == ScoreOf(req.student_profile.tests.sat)
ActScore == ScoreOf(req.student_profile.tests.act)
PolicyIs(uses) == Policy # None /\ AdmissionUse \in uses

\* a band is usable when it is present, non-empty and its p50 is not 0
Usable(band) == band # <<>> /\ P50Of(band) # 0
\* the band a plan is sized from: the SAT band when present, else the ACT band
SizingBand == IF Bands.sat_composite # <<>> THEN Bands.sat_composite
              ELSE Bands.act_composite
SatCompared == SatScore # None /\ Bands.sat_composite # <<>>
ActCompared == ~SatCompared /\ ActScore # None /\ Bands.act_composite # <<>>
SatQualifies == SatScore # None /\ Usable(Bands.sat_composite)
                    /\ Val(SatScore) >= P50Of(Bands.sat_composite)
ActQualifies == ActScore # None /\ Usable(Bands.act_composite)
                    /\ Val(ActScore) >= P50Of(Bands.act_composite)

\* C1 as stated: under a required policy the decision is PLAN for every
\* combination of scores, bands, runway and hour cap.
C1_RequiredAlwaysPlan ==
    (PlanDone /\ PolicyIs({"required"})) => Decision = "PLAN"

\* C1 amended: under a required policy the decision is PLAN, with two tasks,
\* whenever the band the plan is sized from is usable, whatever the scores
\* (none, below the band, at or above p50), runway and hour cap; it is
\* OPTIONAL when that band is not usable; it is never SKIP or SEND.
C1_RequiredPlansWhenBand ==
    (PlanDone /\ PolicyIs({"required"})) =>
        /\ Usable(SizingBand) =>
              Decision = "PLAN" /\ Val(resp).tasks # None
                                /\ Len(Val(Val(resp).tasks)) = 2
        /\ ~Usable(SizingBand) => Decision = "OPTIONAL"
        /\ Decision \notin {"SKIP", "SEND"}

\* C1 witness: required policy, the student already at p50, no runway, lowest
\* hour cap, and the decision is PLAN.
C1_Witness ==
    /\ PlanDone /\ PolicyIs({"required"})
    /\ SatQualifies
    /\ RunwayWeeks(req.school_context, today) = 0
    /\ req.weekly_hours_cap = 2
    /\ Decision = "PLAN"

\* C2 as stated: under an optional policy, an SAT score at or above the SAT
\* band's p50, or an ACT score at or above the ACT band's p50, gives SEND,
\* whatever the other test's score.
C2_BestScoreSends ==
    (PlanDone /\ PolicyIs(OptionalUse) /\ (SatQualifies \/ ActQualifies))
        => Decision = "SEND"

\* C2 failing case: optional policy, an SAT score below the SAT band's p50, an
\* ACT score at or above the ACT band's p50, and the decision is not SEND.
C2_Witness ==
    /\ PlanDone /\ PolicyIs(OptionalUse)
    /\ SatCompared /\ ~SatQualifies
    /\ ActQualifies
    /\ Decision # "SEND"

\* the dates C3 speaks of, parsed
PolicyDate ==
    IF Val(Policy).latest_submission_date = None THEN None
    ELSE ParseDate(Val(Val(Policy).latest_submission_date))
FirstClosingDate ==
    LET rounds == req.school_context.application_rounds
    IN  IF rounds = <<>> \/ rounds[1].closing_date = None THEN None
        ELSE ParseDate(Val(rounds[1].closing_date))
Unparseable(o) == o # None /\ ParseDate(Val(o)) = None
\* whole weeks from today to the later of the two dates, 0 when there is
\* none or it is in the past
LaterDateRunway ==
    LET days == {Val(d) : d \in {PolicyDate, FirstClosingDate} \ {None}}
    IN  IF days = {} THEN 0
        ELSE LET latest == CHOOSE d \in days : \A e \in days : e <= d
             IN  Max(0, (latest - today) \div 7)

\* C3 as stated: the runway plan_tests computes is the whole weeks from today
\* to the later of the policy's latest submission date and the first round's
\* closing date, 0 when that date is past or absent (stated for date strings
\* that parse).
C3_RunwayToLaterDate ==
    (/\ PlanDone /\ lv # None
     /\ ~Unparseable(Val(Policy).latest_submission_date))
        => Val(lv).runway_weeks = LaterDateRunway

\* C3 failing case: a policy date 3 weeks ahead, a first round closing 20
\* weeks ahead, and a computed runway of 3 weeks.
C3_Witness ==
    /\ PlanDone /\ lv # None
    /\ PolicyDate # None /\ FirstClosingDate # None
    /\ (Val(PolicyDate) - today) \div 7 = 3
    /\ (Val(FirstClosingDate) - today) \div 7 = 20
    /\ Val(lv).runway_weeks = 3

\* C4: optional policy, compared score below p50: PLAN iff the computed runway
\* is at least 8 weeks and the hour cap at least 3, otherwise SKIP.
C4_PlanIffRunwayAndHours ==
    (/\ PlanDone /\ PolicyIs(OptionalUse)
     /\ \/ SatCompared /\ Val(SatScore) < P50Of(Bands.sat_composite)
        \/ ActCompared /\ Val(ActScore) < P50Of(Bands.act_composite))
        => /\ lv # None
           /\ Decision = "PLAN" <=>
                 (Val(lv).runway_weeks >= 8 /\ req.weekly_hours_cap >= 3)
           /\ Decision = "SKIP" <=>
                 (Val(lv).runway_weeks < 8 \/ req.weekly_hours_cap < 3)

\* C4 witness: optional policy, score below p50, runway exactly 8 weeks, hour
\* cap exactly 3, and the decision is PLAN.
C4_Witness ==
    /\ PlanDone /\ PolicyIs(OptionalUse)
    /\ SatCompared /\ Val(SatScore) < P50Of(Bands.sat_composite)
    /\ lv # None /\ Val(lv).runway_weeks = 8
    /\ req.weekly_hours_cap = 3
    /\ Decision = "PLAN"

\* the planned test's inputs, read from the request
PlannedIsSat == Val(resp).rationale.test_type = "SAT"
PlannedBaseline == IF PlannedIsSat THEN SatScore ELSE ActScore
PlannedP50 == IF PlannedIsSat THEN P50Of(Bands.sat_composite)
              ELSE P50Of(Bands.act_composite)
PlannedDelta == IF PlannedIsSat THEN 60 ELSE 2
PlannedTarget == Val(resp).rationale.target_score

\* C5: in a PLAN the target is min(baseline + delta, p50), delta 60 for SAT and
\* 2 for ACT, and p50 with no baseline; it never exceeds p50.
C5_TargetScore ==
    (PlanDone /\ Decision = "PLAN") =>
        /\ PlannedBaseline # None =>
              PlannedTarget = Min(Val(PlannedBaseline) + PlannedDelta, PlannedP50)
        /\ PlannedBaseline = None => PlannedTarget = PlannedP50
        /\ PlannedTarget <= PlannedP50

\* C5 witness: a required-policy plan whose baseline is within delta of p50, so
\* that the cap at p50 decides the target.
C5_Witness ==
    /\ PlanDone /\ Decision = "PLAN"
    /\ PlannedBaseline # None
    /\ Val(PlannedBaseline) + PlannedDelta > PlannedP50
    /\ PlannedTarget = PlannedP50

\* C6: in a PLAN the hours are delta x cost (SAT 1, ACT 2) clamped to [20,60];
\* there are exactly two tasks, the first without dependencies, the second
\* depending on exactly the first; the durations sum to the hours and each is
\* at least 1.
C6_PlanHoursAndTasks ==
    (PlanDone /\ Decision = "PLAN") =>
        LET hours == Max(20, Min(PlannedDelta * (IF PlannedIsSat THEN 1 ELSE 2), 60))
            tasks == Val(Val(resp).tasks)
        IN  /\ Val(resp).rationale.hours_needed = hours
            /\ Len(tasks) = 2
            /\ tasks[1].deps = <<>>
            /\ tasks[2].deps = <<tasks[1].id>>
            /\ tasks[1].duration_hours + tasks[2].duration_hours = hours
            /\ tasks[1].duration_hours >= 1
            /\ tasks[2].duration_hours >= 1

\* C6 witness: an ACT plan, whose 4 hours are clamped up to 20.
C6_Witness ==
    /\ PlanDone /\ Decision = "PLAN"
    /\ ~PlannedIsSat
    /\ Val(resp).rationale.hours_needed = 20
    /\ Val(Val(resp).tasks)[2].duration_hours = 16

\* C7 as stated: whenever the policy is required, recommended or
\* considered_if_submitted and neither band is usable the decision is OPTIONAL,
\* and OPTIONAL is returned only then.
C7_NoBandIffOptional ==
    PlanDone =>
        (Decision = "OPTIONAL" <=>
            /\ PolicyIs({"required"} \cup OptionalUse)
            /\ ~Usable(Bands.sat_composite) /\ ~Usable(Bands.act_composite))

\* C7 amended: the decision is OPTIONAL exactly when a plan is to be produced
\* (policy required, or optional with runway >= 8 weeks and hour cap >= 3) and
\* the band the plan is sized from is not usable; an optional policy without
\* that runway or those hours gives SKIP also when no band is usable.
C7_NoBandOnPlanPath ==
    PlanDone =>
        /\ Decision = "OPTIONAL" <=>
              /\ ~Usable(SizingBand)
              /\ \/ PolicyIs({"required"})
                 \/ /\ PolicyIs(OptionalUse)
                    /\ RunwayWeeks(req.school_context, today) >= 8
                    /\ req.weekly_hours_cap >= 3
        /\ (/\ PolicyIs(OptionalUse) /\ ~Usable(SizingBand)
            /\ (RunwayWeeks(req.school_context, today) < 8 \/ req.weekly_hours_cap < 3))
              => Decision = "SKIP"

\* C7 witness: an optional policy with enough runway and hours, a student with
\* scores, no band, and the decision is OPTIONAL.
C7_Witness ==
    /\ PlanDone /\ PolicyIs(OptionalUse)
    /\ SatScore # None /\ ActScore # None
    /\ Bands.sat_composite = <<>> /\ Bands.act_composite = <<>>
    /\ Decision = "OPTIONAL"

\* C8: no policy, or policy not_considered: SKIP without tasks, whatever the
\* scores, bands, deadlines and hour cap.
C8_NoPolicySkips ==
    (PlanDone /\ (Policy = None \/ PolicyIs({"not_considered"}))) =>
        Decision = "SKIP" /\ Val(resp).tasks = None

\* C8 witness: policy not_considered, a score above p50, a deadline 8 weeks
\* ahead, hour cap 5, and the decision is SKIP.
C8_Witness ==
    /\ PlanDone /\ PolicyIs({"not_considered"})
    /\ SatQualifies
    /\ Val(Policy).latest_submission_date = Some(DateStr("datetime", 156))
    /\ req.weekly_hours_cap = 5
    /\ Decision = "SKIP" /\ Val(resp).tasks = None

(***************************************************************************)
(* Gap analyzer (analyze_gaps)                                             *)
(*                                                                         *)
(* Floats are fixed-point: lens scores and normalized impacts in           *)
(* thousandths (10.0 is 10000), reported severities in hundredths (1.0 is  *)
(* 100), as `round(severity, 2)` leaves them.                              *)
(***************************************************************************)
LENS_LIST == <<"Curiosity", "Growth", "Community", "Creativity", "Leadership",
               "Achievements">>
\* LENS_MIN_SCORE = 4.0, in thousandths
LENS_MIN_SCORE == 4000
\* `if median_weeks < 8` / `(8 - median_weeks) / 8`
MIN_MEDIAN_WEEKS == 8
\* most evidence items of a portfolio
MaxItems == 3

\* `round(num / den, 2)` in hundredths, for num >= 0 and den > 0.  Python rounds
\* the binary float half-to-even; the two agree whenever num/den is not an
\* exact tie, and on the ties a float holds exactly (eighths).
Round2(num, den) ==
    LET q == (100 * num) \div den
        r == (100 * num) % den
    IN  IF 2 * r > den THEN q + 1
        ELSE IF 2 * r < den THEN q
        ELSE IF q % 2 = 0 THEN q ELSE q + 1

\* faulty variant: whole weeks only, `days // 7`
weeks_between_Floor(start, end, now) ==
    IF start = None THEN 1
    ELSE LET e == IF end # None THEN Val(end) ELSE now
             days == Max(1, e - Val(start))
         IN  Max(1, days \div 7)

\* faulty variant: date.today() is a week ahead in every call after the first
weeks_between_PerCall(start, end, now) ==
    IF start = None THEN 1
    ELSE LET e == IF end # None THEN Val(end)
                  ELSE IF lv = None THEN now ELSE now + 7
             days == Max(1, e - Val(start))
         IN  Max(1, (days + 6) \div 7)

\* `max(1, math.ceil(max(1, (e - start).days) / 7))`, 1 without a start date;
\* an absent end date is date.today()
weeks_between(start, end, now) ==
    IF start = None THEN 1
    ELSE LET e == IF end # None THEN Val(end) ELSE now
             days == Max(1, e - Val(start))
         IN  Max(1, (days + 6) \div 7)

\* str.lower() on the strings of the model
Lower(str) ==
    CASE str = "Robotics" -> "robotics" [] str = "National" -> "national"
      [] str = "AI" -> "ai"
      [] str = "Curiosity" -> "curiosity" [] str = "Growth" -> "growth"
      [] str = "Community" -> "community" [] str = "Creativity" -> "creativity"
      [] str = "Leadership" -> "leadership" [] str = "Achievements" -> "achievements"
      [] str = "Submit" -> "submit" [] str = "Create" -> "create"
      [] str = "Mentor" -> "mentor" [] str = "Take" -> "take"
      [] str = "Start" -> "start" [] str = "Join" -> "join"
      [] str = "Explore" -> "explore" [] str = "Document" -> "document"
      [] str = "Deepen" -> "deepen" [] str = "Alternative" -> "alternative"
      [] str = "Creative" -> "creative" [] str = "Different" -> "different"
      [] str = "Organise" -> "organise" [] str = "MENTOR" -> "mentor"
      [] str = "Computer Science" -> "computer science" [] OTHER -> str

\* theme tags of the model, lower-cased, and where each occurs as a substring:
\* in `" ".join(v)` of some THEME_LEXICON list, in `intended_major.lower()`
LexiconTags == {"robotics"}
MajorTags(major) == IF major = "computer science" THEN {"computer"} ELSE {}

\* `_major_match`: 1 when some tag is a substring of the major or of a lexicon
\* list (whatever the major), else 0
major_match(theme_tags, intended_major) ==
    IF intended_major = None \/ theme_tags = <<>> THEN 0
    ELSE IF \E i \in 1..Len(theme_tags) :
                \/ Lower(theme_tags[i]) \in MajorTags(Lower(Val(intended_major)))
                \/ Lower(theme_tags[i]) \in LexiconTags
         THEN 1 ELSE 0

RECURSIVE SumSeq(_)
SumSeq(q) == IF q = <<>> THEN 0 ELSE q[1] + SumSeq(Tail(q))

RECURSIVE SumOver(_, _)
\* `sum(d.values())` of a dict d with keys ks
SumOver(d, ks) ==
    IF ks = {} THEN 0
    ELSE LET k == CHOOSE x \in ks : TRUE IN d[k] + SumOver(d, ks \ {k})

\* `impacts_norm.get(ev.id, 0.0)`
GetImpact(impacts_norm, id) ==
    IF id \in DOMAIN impacts_norm THEN impacts_norm[id] ELSE 0

RECURSIVE Concat(_)
Concat(qs) == IF qs = <<>> THEN <<>> ELSE qs[1] \o Concat(Tail(qs))

\* lens gaps, in the order of lens_s.items()
LensGaps(lens_s) ==
    Concat([i \in 1..Len(LENS_LIST) |->
        LET lens == LENS_LIST[i] IN
        IF lens_s[lens] < LENS_MIN_SCORE
        THEN << [type |-> "lens", lens |-> lens,
                 severity |-> Round2(LENS_MIN_SCORE - lens_s[lens], LENS_MIN_SCORE)] >>
        ELSE <<>>])

\* `if not theme`
SpikeGaps(spike) ==
    IF spike.theme = None THEN << [type |-> "spike", severity |-> 100] >> ELSE <<>>

\* faulty variant: a record as soon as one recommender is required
RecsGaps_AnyRequired(ctx) ==
    IF /\ ctx # None
       /\ Val(ctx).recommenders_required # None
       /\ Val(Val(ctx).recommenders_required) >= 1
    THEN << [type |-> "recs", severity |-> 50,
             required |-> Val(Val(ctx).recommenders_required)] >>
    ELSE <<>>

\* `if ctx and (ctx.recommenders_required or 0) > 1`
RecsGaps(ctx) ==
    IF /\ ctx # None
       /\ Val(ctx).recommenders_required # None
       /\ Val(Val(ctx).recommenders_required) > 1
    THEN << [type |-> "recs", severity |-> 50,
             required |-> Val(Val(ctx).recommenders_required)] >>
    ELSE <<>>

\* `coverage < 0.5`, severity `(0.5 - coverage) / 0.5` = (n - 2k) / n
ArtifactGaps(portfolio) ==
    LET n == Len(portfolio)
        k == Cardinality({i \in 1..n : portfolio[i].artifact_links # <<>>})
    IN  IF n > 0 /\ 2 * k < n
        THEN << [type |-> "artifacts", severity |-> Round2(n - 2 * k, n)] >>
        ELSE <<>>

\* faulty variant: the lower of the two middle values
MedianWeeks_Lower(weeks_list) ==
    SortSeq(weeks_list, LAMBDA a, b : a < b)[((Len(weeks_list) - 1) \div 2) + 1]

\* `weeks_list.sort(); median_weeks = weeks_list[len(weeks_list) // 2]`
MedianWeeks(weeks_list) ==
    SortSeq(weeks_list, LAMBDA a, b : a < b)[(Len(weeks_list) \div 2) + 1]

DurationGaps(portfolio, now) ==
    LET weeks_list == [i \in 1..Len(portfolio) |->
                          weeks_between(portfolio[i].start_date,
                                        portfolio[i].end_date, now)]
    IN  IF portfolio # <<>> /\ MedianWeeks(weeks_list) < MIN_MEDIAN_WEEKS
        THEN << [type |-> "duration",
                 severity |-> Round2(MIN_MEDIAN_WEEKS - MedianWeeks(weeks_list),
                                     MIN_MEDIAN_WEEKS)] >>
        ELSE <<>>

\* `share < 0.3`, severity `(0.3 - share) / 0.3` = (3 total - 10 aligned) / (3 total)
AlignmentGaps(portfolio, prof, impacts_norm) ==
    LET total_impact == SumOver(impacts_norm, DOMAIN impacts_norm)
        major_aligned_impact ==
            SumSeq([i \in 1..Len(portfolio) |->
                IF major_match(portfolio[i].theme_tags, Val(prof).intended_major) = 1
                THEN GetImpact(impacts_norm, portfolio[i].id) ELSE 0])
    IN  IF /\ prof # None /\ Val(prof).intended_major # None /\ portfolio # <<>>
           /\ total_impact > 0
           /\ 10 * major_aligned_impact < 3 * total_impact
        THEN << [type |-> "alignment",
                 severity |-> Round2(3 * total_impact - 10 * major_aligned_impact,
                                     3 * total_impact)] >>
        ELSE <<>>

analyze_gaps(portfolio, lens_s, spike, ctx, prof, impacts_norm, now) ==
    LensGaps(lens_s) \o SpikeGaps(spike) \o RecsGaps(ctx) \o ArtifactGaps(portfolio)
        \o DurationGaps(portfolio, now) \o AlignmentGaps(portfolio, prof, impacts_norm)

(***************************************************************************)
(* The scoring pipeline in front of analyze_gaps (analyze_portfolio)       *)
(*                                                                         *)
(* Raw impacts are in ten-thousandths, logarithms and normalised impacts in *)
(* thousandths.                                                            *)
(***************************************************************************)
ROLE_WEIGHT(role_level) ==
    CASE role_level = "Member" -> 1 [] role_level = "Core" -> 2
      [] role_level = "Lead" -> 3 [] role_level = "Founder" -> 4

\* AWARD_WEIGHT.get(lvl, 0.0)
AWARD_WEIGHT(lvl) ==
    CASE lvl = "school" -> 1 [] lvl = "regional" -> 2 [] lvl = "national" -> 3
      [] lvl = "international" -> 4 [] OTHER -> 0

\* math.log1p(x) in thousandths, tabulated for the hour and people counts of
\* the model
Log1pTable ==
    [x \in {0, 1, 10, 15, 20, 25, 30, 80, 179, 1000, 5000} |->
        CASE x = 0 -> 0 [] x = 1 -> 693 [] x = 10 -> 2398 [] x = 15 -> 2773
          [] x = 20 -> 3045 [] x = 25 -> 3258 [] x = 30 -> 3434 [] x = 80 -> 4394 [] x = 179 -> 5193
          [] x = 1000 -> 6909 [] x = 5000 -> 8517]

\* `math.log1p(x or 0)`
log1p(x) == IF x = None THEN Log1pTable[0] ELSE Log1pTable[Val(x)]

RECURSIVE MaxAward(_)
\* `max(award_weight_max, AWARD_WEIGHT.get(str(a.get("level","none")).lower(), 0.0))`
MaxAward(awards) ==
    IF awards = <<>> THEN 0
    ELSE Max(AWARD_WEIGHT(Lower(awards[1].level)), MaxAward(Tail(awards)))

\* `ev.hours_total if ev.hours_total is not None else (ev.hours_per_week or 0) * weeks_active`
HoursTotal(ev, now) ==
    IF ev.hours_total # None THEN Val(ev.hours_total)
    ELSE (IF ev.hours_per_week # None THEN Val(ev.hours_per_week) ELSE 0)
             * weeks_between(ev.start_date, ev.end_date, now)

\* 0.28 role + 0.18 log1p(people) + 0.38 log1p(hours) + 0.16 award
compute_impact(ev, now) ==
    2800 * ROLE_WEIGHT(ev.role_level)
        + (18 * log1p(ev.people_impacted) + 38 * log1p(Some(HoursTotal(ev, now)))) \div 10
        + 1600 * MaxAward(ev.awards)

\* `impacts_raw[ev.id] = compute_impact(ev, ...)` for each item in turn: the
\* last item of an id is the one kept
ImpactsRaw(portfolio, now) ==
    [id \in {portfolio[i].id : i \in 1..Len(portfolio)} |->
        LET last == CHOOSE i \in 1..Len(portfolio) :
                        /\ portfolio[i].id = id
                        /\ \A j \in 1..Len(portfolio) : portfolio[j].id = id => j <= i
        IN  compute_impact(portfolio[last], now)]

SetMax(S) == CHOOSE x \in S : \A y \in S : y <= x
SetMin(S) == CHOOSE x \in S : \A y \in S : x <= y

\* faulty variant: divides by the maximum without shifting by the minimum
normalize_impacts_NoShift(impacts, tol) ==
    IF DOMAIN impacts = {} THEN impacts
    ELSE LET vals == {impacts[k] : k \in DOMAIN impacts}
             mn == SetMin(vals)
             mx == SetMax(vals)
         IN  IF mx - mn < tol THEN [k \in DOMAIN impacts |-> 5000]
             ELSE [k \in DOMAIN impacts |-> (10000 * impacts[k]) \div mx]

\* min-max rescale to 0..10 (thousandths), 5.0 for all when
\* `abs(mx - mn) < 1e-9`; tol is 1e-9 in the unit of the raw values
normalize_impacts_tol(impacts, tol) ==
    IF DOMAIN impacts = {} THEN impacts
    ELSE LET vals == {impacts[k] : k \in DOMAIN impacts}
             mn == SetMin(vals)
             mx == SetMax(vals)
         IN  IF mx - mn < tol THEN [k \in DOMAIN impacts |-> 5000]
             ELSE [k \in DOMAIN impacts |-> (10000 * (impacts[k] - mn)) \div (mx - mn)]

\* normalize_impacts on raw impacts in ten-thousandths: 1e-9 is less than one
\* unit, so only equal values are within it
normalize_impacts(impacts) == normalize_impacts_tol(impacts, 1)

Lenses == {LENS_LIST[i] : i \in 1..Len(LENS_LIST)}

\* faulty variant: divides by the sum over all lenses instead of the largest
lens_scores_ByTotal(portfolio, impacts_norm) ==
    LET sums == [k \in Lenses |->
                    SumSeq([i \in 1..Len(portfolio) |->
                        IF portfolio[i].lens = k
                        THEN GetImpact(impacts_norm, portfolio[i].id) ELSE 0])]
        total == SumSeq([i \in 1..Len(LENS_LIST) |-> sums[LENS_LIST[i]]])
    IN  IF total <= 0 THEN [k \in Lenses |-> sums[k] * 10]
        ELSE [k \in Lenses |-> (sums[k] * 10000) \div total]

\* sum per lens, divided by the largest sum (1.0 when that is <= 0), times 10
lens_scores(portfolio, impacts_norm) ==
    LET sums == [k \in Lenses |->
                    SumSeq([i \in 1..Len(portfolio) |->
                        IF portfolio[i].lens = k
                        THEN GetImpact(impacts_norm, portfolio[i].id) ELSE 0])]
        top == SetMax({sums[k] : k \in Lenses})
    IN  IF top <= 0 THEN [k \in Lenses |-> sums[k] * 10]
        ELSE [k \in Lenses |-> (sums[k] * 10000) \div top]

\* SPIKE_MIN_SHARE = 0.35, in thousandths
SPIKE_MIN_SHARE == 350

\* faulty variant: a share of exactly 0.35 is not enough
detect_spike_Strict(portfolio, impacts_norm) ==
    LET tagged == {i \in 1..Len(portfolio) : portfolio[i].theme_tags # <<>>}
        top_tag(i) == Lower(portfolio[i].theme_tags[1])
        bucket(t) == SumSeq([i \in 1..Len(portfolio) |->
                        IF i \in tagged /\ top_tag(i) = t
                        THEN GetImpact(impacts_norm, portfolio[i].id) ELSE 0])
        total == SumSeq([i \in 1..Len(portfolio) |->
                        IF i \in tagged
                        THEN GetImpact(impacts_norm, portfolio[i].id) ELSE 0])
    IN  IF total <= 0 THEN [theme |-> None, share |-> 0]
        ELSE LET best == SetMax({bucket(top_tag(i)) : i \in tagged})
                 first == SetMin({i \in tagged : bucket(top_tag(i)) = best})
             IN  IF 1000 * best > SPIKE_MIN_SHARE * total
                 THEN [theme |-> Some(top_tag(first)), share |-> (1000 * best) \div total]
                 ELSE [theme |-> None, share |-> (1000 * best) \div total]

\* faulty variant: among equal buckets the one encountered last is returned
detect_spike_LastMax(portfolio, impacts_norm) ==
    LET tagged == {i \in 1..Len(portfolio) : portfolio[i].theme_tags # <<>>}
        top_tag(i) == Lower(portfolio[i].theme_tags[1])
        bucket(t) == SumSeq([i \in 1..Len(portfolio) |->
                        IF i \in tagged /\ top_tag(i) = t
                        THEN GetImpact(impacts_norm, portfolio[i].id) ELSE 0])
        total == SumSeq([i \in 1..Len(portfolio) |->
                        IF i \in tagged
                        THEN GetImpact(impacts_norm, portfolio[i].id) ELSE 0])
    IN  IF total <= 0 THEN [theme |-> None, share |-> 0]
        ELSE LET best == SetMax({bucket(top_tag(i)) : i \in tagged})
                 last == SetMax({i \in tagged : bucket(top_tag(i)) = best})
             IN  IF 1000 * best >= SPIKE_MIN_SHARE * total
                 THEN [theme |-> Some(top_tag(last)), share |-> (1000 * best) \div total]
                 ELSE [theme |-> None, share |-> (1000 * best) \div total]

\* buckets by first theme tag; the largest bucket, the first inserted among
\* equals; its share in thousandths; no theme when the share is below 0.35
detect_spike(portfolio, impacts_norm) ==
    LET tagged == {i \in 1..Len(portfolio) : portfolio[i].theme_tags # <<>>}
        top_tag(i) == Lower(portfolio[i].theme_tags[1])
        bucket(t) == SumSeq([i \in 1..Len(portfolio) |->
                        IF i \in tagged /\ top_tag(i) = t
                        THEN GetImpact(impacts_norm, portfolio[i].id) ELSE 0])
        total == SumSeq([i \in 1..Len(portfolio) |->
                        IF i \in tagged
                        THEN GetImpact(impacts_norm, portfolio[i].id) ELSE 0])
    IN  IF total <= 0 THEN [theme |-> None, share |-> 0]
        ELSE LET best == SetMax({bucket(top_tag(i)) : i \in tagged})
                 first == SetMin({i \in tagged : bucket(top_tag(i)) = best})
             IN  IF 1000 * best >= SPIKE_MIN_SHARE * total
                 THEN [theme |-> Some(top_tag(first)), share |-> (1000 * best) \div total]
                 ELSE [theme |-> None, share |-> (1000 * best) \div total]

(***************************************************************************)
(* alignment_for_school (values in thousandths, weights in tenths)         *)
(***************************************************************************)
\* the outcome of a call: a returned value, or an exception raised
Returned(v) == [raises |-> "", value |-> v]
Raised(e) == [raises |-> e, value |-> 0]

\* FACTOR_WEIGHT.get(level, 0.3), in tenths
FACTOR_WEIGHT(level) ==
    CASE level = "very_important" -> 10 [] level = "important" -> 6
      [] level = "considered" -> 3 [] level = "not_considered" -> 0
      [] OTHER -> 3

\* `_gpa_norm`: 0 without a GPA, else (clamp(gpa, 2.5, 4.0) - 2.5) / 1.5; the
\* GPA is in tenths
gpa_norm(gpa) ==
    IF gpa = None THEN 0
    ELSE (1000 * (Min(Max(Val(gpa), 25), 40) - 25)) \div 15

\* str.upper() on the grades of the model
Upper(str) == CASE str = "a" -> "A" [] str = "hl" -> "HL" [] OTHER -> str

\* `min(1.0, rigor_count / 6.0)` over the grades in {"A*", "A", "HL", "HLA"}
rigor_of(grades_by_subject) ==
    LET rigor_count == Cardinality({subj \in DOMAIN grades_by_subject :
                          Upper(grades_by_subject[subj]) \in {"A*", "A", "HL", "HLA"}})
    IN  Min(1000, (1000 * rigor_count) \div 6)

\* the position of a score s against a band: `band[0]`, `band[1]`, `band[-1]`;
\* `band[1]` raises IndexError on a band of one element
BandPosition(s, band) ==
    IF Len(band) < 2 THEN Raised("IndexError")
    ELSE LET lo == band[1]
             md == band[2]
             hi == band[Len(band)]
         IN  IF s <= lo THEN Returned(0)
             ELSE IF s >= hi THEN Returned(1000)
             ELSE IF s = md THEN Returned(500)
             ELSE IF s < md THEN Returned((500 * (s - lo)) \div (md - lo))
             ELSE Returned(500 + (500 * (s - md)) \div (hi - md))

\* faulty variant: ACT is looked at first
tests_norm_ActFirst(profile, mid50) ==
    IF profile = None THEN Returned(0)
    ELSE LET sat == ScoreOf(Val(profile).tests.sat)
             act == ScoreOf(Val(profile).tests.act)
         IN  IF act # None /\ mid50.act_composite # <<>>
             THEN BandPosition(Val(act), mid50.act_composite)
             ELSE IF sat # None /\ mid50.sat_composite # <<>>
             THEN BandPosition(Val(sat), mid50.sat_composite)
             ELSE Returned(0)

\* `_tests_norm`: SAT when an SAT score and an SAT band exist, else ACT when an
\* ACT score and an ACT band exist, else 0
tests_norm(profile, mid50) ==
    IF profile = None THEN Returned(0)
    ELSE LET sat == ScoreOf(Val(profile).tests.sat)
             act == ScoreOf(Val(profile).tests.act)
         IN  IF sat # None /\ mid50.sat_composite # <<>>
             THEN BandPosition(Val(sat), mid50.sat_composite)
             ELSE IF act # None /\ mid50.act_composite # <<>>
             THEN BandPosition(Val(act), mid50.act_composite)
             ELSE Returned(0)

\* the seven dimensions, in the order of the `dims` dict
ALIGN_DIMS == <<"gpa", "rigor", "test_scores", "essay", "ec", "recommendations", "interest">>

\* `weights.get(k, "considered")` with `weights = ctx.factor_importance or {}`
FactorLevel(factor_importance, k) ==
    IF factor_importance # None /\ k \in DOMAIN Val(factor_importance)
    THEN Val(factor_importance)[k] ELSE "considered"

\* `(num / den) if den > 0 else 0.0`
WeightedMean(dims, factor_importance) ==
    LET w(k) == FACTOR_WEIGHT(FactorLevel(factor_importance, k))
        num == SumSeq([i \in 1..Len(ALIGN_DIMS) |-> w(ALIGN_DIMS[i]) * dims[ALIGN_DIMS[i]]])
        den == SumSeq([i \in 1..Len(ALIGN_DIMS) |-> w(ALIGN_DIMS[i])])
    IN  IF den > 0 THEN num \div den ELSE 0

alignment_for_school(ctx, prof, lens_s) ==
    IF ctx = None \/ prof = None THEN Returned(0)
    ELSE LET tests == tests_norm(prof, Val(ctx).mid50_scores)
             recs == IF (IF Val(ctx).recommenders_required = None THEN 0
                         ELSE Val(Val(ctx).recommenders_required)) <= 1
                     THEN 1000 ELSE 500
             dims == [gpa |-> gpa_norm(Val(prof).gpa_unweighted),
                      rigor |-> rigor_of(Val(prof).grades_by_subject),
                      test_scores |-> tests.value,
                      essay |-> (lens_s["Creativity"] + lens_s["Growth"]) \div 20,
                      ec |-> (lens_s["Leadership"] + lens_s["Community"]) \div 20,
                      recommendations |-> recs,
                      interest |-> 0]
         IN  IF tests.raises # "" THEN tests
             ELSE Returned(WeightedMean(dims, Val(ctx).factor_importance))

(***************************************************************************)
(* coverage_index: the entropy of the lens-score shares over log(6)        *)
(***************************************************************************)
\* -p * math.log(p) in thousandths for p = 0.00, 0.01, .. 1.00 (the term of a
\* share of 0 is skipped in the source)
EntropyTable ==
    <<
       0, 46, 78, 105, 129, 150, 169, 186, 202, 217, 230, 243,
       254, 265, 275, 285, 293, 301, 309, 316, 322, 328, 333, 338,
       343, 347, 350, 354, 356, 359, 361, 363, 365, 366, 367, 367,
       368, 368, 368, 367, 367, 366, 364, 363, 361, 359, 357, 355,
       352, 350, 347, 343, 340, 336, 333, 329, 325, 320, 316, 311,
       306, 302, 296, 291, 286, 280, 274, 268, 262, 256, 250, 243,
       237, 230, 223, 216, 209, 201, 194, 186, 179, 171, 163, 155,
       146, 138, 130, 121, 112, 104, 95, 86, 77, 67, 58, 49,
       39, 30, 20, 10, 0 >>
EntropyTerm(p) == EntropyTable[p + 1]

\* math.log(len(lens_scores_map)) = log(6) in thousandths
LOG_LENSES == 1792

\* math.log(n) in thousandths for n = 1..6
LogTable == <<0, 693, 1099, 1386, 1609, 1792>>

\* faulty variant: the entropy is divided by the logarithm of the number of
\* lenses with a score above 0
coverage_index_PositiveLenses(lens_scores_map) ==
    LET total == SumOver(lens_scores_map, Lenses)
        share(k) == (200 * lens_scores_map[k] + total) \div (2 * total)
        H == SumSeq([i \in 1..Len(LENS_LIST) |-> EntropyTerm(share(LENS_LIST[i]))])
        n == Cardinality({k \in Lenses : lens_scores_map[k] > 0})
    IN  IF total <= 0 \/ n = 1 THEN 0 ELSE Min(1000, (1000 * H) \div LogTable[n])

\* `coverage_index`, in thousandths; shares are taken to the nearest hundredth
coverage_index(lens_scores_map) ==
    LET total == SumOver(lens_scores_map, Lenses)
        share(k) == (200 * lens_scores_map[k] + total) \div (2 * total)
        H == SumSeq([i \in 1..Len(LENS_LIST) |-> EntropyTerm(share(LENS_LIST[i]))])
    IN  IF total <= 0 THEN 0 ELSE Min(1000, (1000 * H) \div LOG_LENSES)

(***************************************************************************)
(* Recommendation sections of analyze_portfolio                            *)
(*                                                                         *)
(* A task is modelled by its title, and a title by its sequence of words.  *)
(* The generative service is `gpt`: unavailable (no client or no API key), *)
(* failing (the call or the parsing of its reply raises), or answering with *)
(* a reply.                                                                *)
(***************************************************************************)
Failing == [mode |-> "fails"]
Answering(reply) == [mode |-> "answers", reply |-> reply]

\* `q[:n]`
Take(q, n) == SubSeq(q, 1, Min(n, Len(q)))

\* `sorted(gaps, key=lambda x: x.get('severity', 0), reverse=True)`: a stable
\* sort, gaps of equal severity keep their order
InsertBySeverity(g, q) ==
    LET before == {i \in 1..Len(q) : q[i].severity >= g.severity}
        n == IF before = {} THEN 0 ELSE SetMax(before)
    IN  SubSeq(q, 1, n) \o <<g>> \o SubSeq(q, n + 1, Len(q))
RECURSIVE SortedBySeverity(_)
SortedBySeverity(gaps) ==
    IF gaps = <<>> THEN <<>>
    ELSE InsertBySeverity(gaps[Len(gaps)], SortedBySeverity(SubSeq(gaps, 1, Len(gaps) - 1)))

\* `gap.get("lens")`
GapLens(gap) == IF "lens" \in DOMAIN gap THEN Some(gap.lens) ELSE None

\* the three fallback tasks of a lens gap
FallbackGapTasks(lens) ==
    IF lens = "Achievements"
    THEN << <<"Enter", "2", "competitions", "aligned", "with", "your", "theme">>,
            <<"Apply", "for", "awards", "and", "recognition", "programs">>,
            <<"Document", "and", "showcase", "your", "achievements">> >>
    ELSE IF lens = "Growth"
    THEN << <<"Document", "your", "learning", "journey", "with", "milestones">>,
            <<"Take", "on", "a", "challenging", "new", "skill", "or", "project">>,
            <<"Create", "reflective", "essays", "on", "your", "development">> >>
    ELSE << <<"Strengthen", lens, "lens:", "Build", "focused", "activity">>,
            <<"Add", "artifacts", "to", lens, "activities">>,
            <<"Deepen", lens, "engagement">> >>

\* the three fallback tasks of a lens that could improve
FallbackLensTasks(lens) ==
    << <<"Enhance", lens, "lens:", "Build", "on", "existing", "strengths">>,
       <<"Add", "depth", "to", lens, "activities">>,
       <<"Showcase", lens, "achievements">> >>

\* `[lens for lens, score in lens_scores.items()
\*   if score >= LENS_MIN_SCORE and score < 7.0]`
LensesToImprove(lens_s) ==
    SelectSeq(LENS_LIST, LAMBDA k : lens_s[k] >= LENS_MIN_SCORE /\ lens_s[k] < 7000)

\* `coverage < 0.6 or not spike_theme or spike_share < SPIKE_MIN_SHARE`
NeedsDiversityImprovement(spike, coverage) ==
    coverage < 600 \/ spike.theme = None \/ spike.share < SPIKE_MIN_SHARE

\* the keys of a dict filled in the order of a list
RECURSIVE FirstOccurrences(_)
FirstOccurrences(q) ==
    IF q = <<>> THEN <<>>
    ELSE LET front == FirstOccurrences(SubSeq(q, 1, Len(q) - 1))
             last == q[Len(q)]
         IN  IF \E i \in 1..Len(front) : front[i] = last THEN front
             ELSE Append(front, last)

\* `_get_structured_fallback`: a section of three tasks for every lens gap, by
\* falling severity, and for every lens to improve; one diversity task when
\* diversity needs improvement; two priority tasks for every school
get_structured_fallback(gaps, lens_s, spike, coverage, scores) ==
    LET lens_gaps == SelectSeq(SortedBySeverity(gaps), LAMBDA g : g.type = "lens")
        improve == LensesToImprove(lens_s)
        align == scores.alignment
    IN  [critical_improvements |->
             [i \in 1..Len(lens_gaps) |->
                 [gap_type |-> "lens", severity |-> lens_gaps[i].severity,
                  tasks |-> Take(FallbackGapTasks(lens_gaps[i].lens), 3)]],
         lens_improvements |->
             [i \in 1..Len(improve) |->
                 [lens |-> improve[i], current_score |-> lens_s[improve[i]],
                  tasks |-> Take(FallbackLensTasks(improve[i]), 3)]],
         diversity_spike |->
             Some([has_spike |-> spike.theme # None,
                   needs_improvement |-> NeedsDiversityImprovement(spike, coverage),
                   tasks |-> IF NeedsDiversityImprovement(spike, coverage)
                             THEN << <<"Build", "or", "deepen", "your", "spike", "theme">> >>
                             ELSE <<>>]),
         alignment_priorities |->
             [i \in 1..Len(align) |->
                 [school_name |-> align[i].school,
                  is_high_alignment |-> align[i].score >= 600,
                  priority_tasks |->
                      IF align[i].score >= 600
                      THEN <<"Focus on perfecting alignment", "Tweak existing strengths">>
                      ELSE <<"Address critical gaps", "Build missing strengths">>]]]

\* the sections parsed from a reply: a section without tasks is dropped, a
\* longer task list is cut to three
ParsedSections(sections) ==
    LET kept == SelectSeq(sections, LAMBDA s : s.tasks # <<>>)
    IN  [i \in 1..Len(kept) |-> [kept[i] EXCEPT !.tasks = Take(@, 3)]]

\* `_generate_structured_recommendations`: the fallback without a client or
\* when the call or the parsing raises, the parsed reply otherwise
generate_structured_recommendations(gaps, lens_s, spike, coverage, scores, service) ==
    IF service.mode # "answers"
    THEN get_structured_fallback(gaps, lens_s, spike, coverage, scores)
    ELSE LET reply == service.reply
         IN  [critical_improvements |-> ParsedSections(reply.critical_improvements),
              lens_improvements |-> ParsedSections(reply.lens_improvements),
              diversity_spike |->
                  IF reply.diversity_spike = None THEN None
                  ELSE Some([Val(reply.diversity_spike) EXCEPT !.tasks = Take(@, 3)]),
              alignment_priorities |-> reply.alignment_priorities]

(***************************************************************************)
(* analyze_standardized_tests                                              *)
(***************************************************************************)
\* `_create_test_prep_tasks` and `_create_test_retake_tasks`: three tasks each
TestPrepTasks(test_type) ==
    << <<"Register", "for", test_type>>,
       <<test_type, "Diagnostic", "Test", "&", "Study", "Plan">>,
       <<test_type, "Practice", "Tests", "&", "Review">> >>
\* faulty variant: a retake is recommended without its tasks
TestRetakeTasks_None(test_type) == <<>>
TestRetakeTasks(test_type) ==
    << <<"Register", "for", test_type, "Retake">>,
       <<test_type, "Retake:", "Focused", "Study", "Plan">>,
       <<test_type, "Retake:", "Practice", "&", "Review">> >>

\* the test analysed: SAT when there is an SAT score and an SAT band, else ACT
\* when there is an ACT score and an ACT band
AnalysedTest(prof, mid50) ==
    LET sat_score == ScoreOf(prof.tests.sat)
        act_score == ScoreOf(prof.tests.act)
    IN  IF sat_score # None /\ mid50.sat_composite # <<>>
        THEN [test_type |-> Some("SAT"), current_score |-> sat_score,
              test_mid50 |-> mid50.sat_composite]
        ELSE IF act_score # None /\ mid50.act_composite # <<>>
        THEN [test_type |-> Some("ACT"), current_score |-> act_score,
              test_mid50 |-> mid50.act_composite]
        ELSE [test_type |-> None, current_score |-> None, test_mid50 |-> <<>>]

\* the competitiveness of a score against a band of at least three values
Competitiveness(sel) ==
    IF sel.current_score = None \/ Len(sel.test_mid50) < 3 THEN None
    ELSE LET s == Val(sel.current_score)
             band == sel.test_mid50
         IN  IF s >= band[Len(band)] THEN Some("highly_competitive")
             ELSE IF s >= band[2] THEN Some("competitive")
             ELSE IF s >= band[1] THEN Some("below_competitive")
             ELSE Some("not_competitive")

\* the later of the first round's closing date and the policy's submission
\* date; the closing date when one of the two does not parse
LaterDateStr(ctx) ==
    LET app == IF Len(ctx.application_rounds) > 0
               THEN ctx.application_rounds[1].closing_date ELSE None
        test == Val(ctx.test_policy).latest_submission_date
    IN  IF app # None /\ test # None
        THEN IF ParseDate(Val(app)) = None \/ ParseDate(Val(test)) = None THEN app
             ELSE IF Val(ParseDate(Val(app))) > Val(ParseDate(Val(test))) THEN app
             ELSE test
        ELSE IF app # None THEN app ELSE test

\* `max(0, (latest_date - date.today()).days // 7)` of a date string, 0 without
\* one or when it does not parse
WeeksUntil(s, now) ==
    IF s = None \/ ParseDate(Val(s)) = None THEN 0
    ELSE Max(0, (Val(ParseDate(Val(s))) - now) \div 7)

\* `analyze_standardized_tests`: no analysis without a profile, a context or a
\* policy, or without a score when tests are not required; one analysis
\* otherwise
analyze_standardized_tests(r, prof, now) ==
    IF prof = None \/ r.school_context = None THEN <<>>
    ELSE IF Val(r.school_context).test_policy = None THEN <<>>
    ELSE
    LET ctx == Val(r.school_context)
        use == Val(ctx.test_policy).admission_use
        sel == AnalysedTest(Val(prof), ctx.mid50_scores)
        score == sel.current_score
        band == sel.test_mid50
        competitiveness == Competitiveness(sel)
        test_type == IF sel.test_type = None THEN "SAT" ELSE Val(sel.test_type)
        below_p25_by(delta) == score # None /\ band # <<>> /\ Val(score) < band[1] - delta
        can_prepare(weeks) == weeks >= MIN_RUNWAY_WEEKS /\ r.weekly_hours_cap >= MIN_WEEKLY_HOURS
        advice ==
            IF use = "not_considered" THEN [recommendation |-> "submit", tasks |-> <<>>]
            ELSE IF use = "required"
            THEN IF score = None
                 THEN [recommendation |-> "reschedule", tasks |-> TestPrepTasks(test_type)]
                 ELSE IF competitiveness = Some("not_competitive") \/ below_p25_by(50)
                 THEN IF can_prepare(RunwayWeeks(ctx, now))
                      THEN [recommendation |-> "reschedule",
                            tasks |-> TestPrepTasks(test_type)]
                      ELSE [recommendation |-> "leave_school_out", tasks |-> <<>>]
                 ELSE [recommendation |-> "submit", tasks |-> <<>>]
            ELSE IF score = None
                 THEN [recommendation |-> "reschedule", tasks |-> TestPrepTasks(test_type)]
                 ELSE IF competitiveness = Some("not_competitive") \/ below_p25_by(20)
                 THEN [recommendation |-> "dont_submit", tasks |-> <<>>]
                 ELSE IF \/ competitiveness = Some("below_competitive")
                         \/ (score # None /\ Len(band) > 1 /\ Val(score) < band[2])
                 THEN IF can_prepare(WeeksUntil(LaterDateStr(ctx), now))
                      THEN [recommendation |-> "reschedule",
                            tasks |-> TestRetakeTasks(test_type)]
                      ELSE [recommendation |-> "submit", tasks |-> <<>>]
                 ELSE [recommendation |-> "submit", tasks |-> <<>>]
    IN  IF score = None /\ use # "required" THEN <<>>
        ELSE << [test_policy |-> use, test_type |-> sel.test_type,
                 current_score |-> score, competitiveness |-> competitiveness,
                 recommendation |-> advice.recommendation, tasks |-> advice.tasks] >>

(***************************************************************************)
(* analyze_portfolio                                                       *)
(***************************************************************************)
\* the `align_map` loop: alignment_for_school once per entry of `schools` when
\* there are a context and a profile, 0.0 otherwise; the dict keeps one entry
\* per school name, in the order of first occurrence
AlignMap(r, lens_s) ==
    LET keys == FirstOccurrences(r.schools)
        one == IF r.school_context # None /\ r.student_profile # None
               THEN alignment_for_school(r.school_context, r.student_profile, lens_s)
               ELSE Returned(0)
    IN  IF r.schools # <<>> /\ one.raises # "" THEN one
        ELSE Returned([i \in 1..Len(keys) |-> [school |-> keys[i], score |-> one.value]])

\* `analyze_portfolio`: scores, alignment per school, gaps, recommendation
\* sections and test analyses; an exception of a step leaves the call.  The
\* call takes no date: compute_impact, analyze_gaps and
\* analyze_standardized_tests each read date.today() when they run, and
\* impact_day, gap_day and test_day are the dates these reads return
analyze_portfolio_at(r, impact_day, gap_day, test_day, service) ==
    LET prof == r.student_profile
        impacts_raw == ImpactsRaw(r.portfolio, impact_day)
        impacts_norm == normalize_impacts(impacts_raw)
        lens_s == IF DOMAIN impacts_norm # {}
                  THEN lens_scores(r.portfolio, impacts_norm)
                  ELSE [k \in Lenses |-> 0]
        coverage == coverage_index(lens_s)
        spike == detect_spike(r.portfolio, impacts_norm)
        align_map == AlignMap(r, lens_s)
        scores == [impact_total |-> Round2(SumOver(impacts_norm, DOMAIN impacts_norm), 1000),
                   lens_scores |-> [k \in Lenses |-> Round2(lens_s[k], 1000)],
                   coverage |-> coverage,
                   spike |-> IF spike.theme # None THEN Some(spike) ELSE None,
                   alignment |-> align_map.value]
        gaps == analyze_gaps(r.portfolio, lens_s, spike, r.school_context, prof,
                             impacts_norm, gap_day)
        recs == generate_structured_recommendations(gaps, lens_s, spike, coverage,
                                                    scores, service)
    IN  [impacts_norm |-> impacts_norm, lens_s |-> lens_s, spike |-> spike,
         coverage |-> coverage,
         result |->
            IF align_map.raises # "" THEN [raises |-> align_map.raises]
            ELSE [raises |-> "", scores |-> scores, gaps |-> gaps,
                  critical_improvements |-> recs.critical_improvements,
                  lens_improvements |-> recs.lens_improvements,
                  diversity_spike |-> recs.diversity_spike,
                  alignment_priorities |-> recs.alignment_priorities,
                  standardized_tests |-> analyze_standardized_tests(r, prof, test_day)]]

\* a call during which the date does not change
analyze_portfolio(r, now, service) == analyze_portfolio_at(r, now, now, now, service)

(***************************************************************************)
(* Requests of analyze_portfolio                                           *)
(***************************************************************************)
Ev(id, lens, role, tags, start, end, total, weekly, people, awards, links) ==
    [id |-> id, lens |-> lens, role_level |-> role, theme_tags |-> tags,
     start_date |-> start, end_date |-> end, hours_total |-> total,
     hours_per_week |-> weekly, people_impacted |-> people, awards |-> awards,
     artifact_links |-> links]

\* Evidence records: activities of 20, 2, 1, 8, 7, 1 and 2 weeks on day 100,
\* every role, with and without awards, tags, artifact links and explicit hours
EvidencePool ==
    { Ev("e1", "Leadership", "Founder", <<"Robotics">>, Some(0), Some(140),
         Some(5000), None, Some(1000), <<[level |-> "international"]>>, <<"https://a">>),
      Ev("e2", "Curiosity", "Core", <<"chess">>, Some(86), None,
         Some(179), None, Some(1), <<>>, <<>>),
      Ev("e3", "Community", "Member", <<>>, None, None,
         Some(0), None, None, <<>>, <<>>),
      Ev("e4", "Growth", "Lead", <<"chess", "computer">>, Some(10), Some(66),
         Some(80), None, None, <<[level |-> "participant"]>>, <<"https://a", "https://b">>),
      Ev("e5", "Achievements", "Founder", <<"robotics">>, Some(51), None,
         Some(30), None, None, <<[level |-> "school"], [level |-> "National"]>>, <<>>),
      Ev("e6", "Growth", "Member", <<"chess">>, Some(93), None,
         None, None, Some(0), <<>>, <<"https://a">>),
      Ev("e7", "Creativity", "Member", <<"robotics">>, Some(86), None,
         None, Some(5), None, <<>>, <<>>) }

\* portfolios: the sequences of at most MaxItems distinct pool items
Portfolios ==
    {p \in SeqsUpTo(EvidencePool, MaxItems) :
        \A i, j \in 1..Len(p) : i # j => p[i] # p[j]}

\* school contexts that differ in the recommenders required, without test
\* policy, score bands, rounds or factor importance
GapContexts ==
    {None} \cup
    {Some([recommenders_required |-> n, test_policy |-> None,
           application_rounds |-> <<>>, factor_importance |-> None,
           mid50_scores |-> [sat_composite |-> <<>>, act_composite |-> <<>>]]) :
        n \in {None, Some(1), Some(3)}}
\* profiles that differ in the intended major, without GPA, grades or scores
GapProfiles ==
    {None} \cup
    {Some([intended_major |-> m, gpa_unweighted |-> None,
           grades_by_subject |-> [subj \in {} |-> ""],
           tests |-> [sat |-> None, act |-> None]]) :
        m \in {None, Some("Computer Science")}}
\* PortfolioAnalyzeRequest.schools
SchoolLists == {<<>>, <<"MIT">>}
\* PortfolioAnalyzeRequest.weekly_hours_cap: Field(8, ge=2, le=25)
DEFAULT_HOURS_CAP == 8

AnalyzeRequests ==
    [portfolio : Portfolios, school_context : GapContexts, student_profile : GapProfiles,
     schools : SchoolLists, weekly_hours_cap : {DEFAULT_HOURS_CAP}]

InitGaps ==
    /\ op = "analyze"
    /\ req \in AnalyzeRequests
    /\ today = Today
    /\ gpt = Unavailable
    /\ resp = None
    /\ lv = None
    /\ pc = "call"

\* POST /portfolio/analyze
AnalyzePortfolio ==
    /\ pc = "call"
    /\ op = "analyze"
    /\ LET out == analyze_portfolio(req, today, gpt)
       IN  /\ resp' = Some(out.result)
           /\ lv' = Some([impacts_norm |-> out.impacts_norm, lens_s |-> out.lens_s,
                          spike |-> out.spike, coverage |-> out.coverage])
    /\ pc' = "done"
    /\ UNCHANGED <<op, req, today, gpt>>

NextGaps == AnalyzePortfolio

SpecGaps == InitGaps /\ [][NextGaps]_vars

(***************************************************************************)
(* Properties of analyze_gaps                                              *)
(***************************************************************************)
GapsDone == pc = "done" /\ op = "analyze"
Gaps == Val(resp).gaps
GapsOfType(t) == {i \in 1..Len(Gaps) : Gaps[i].type = t}

\* C9 as stated: every gap record's reported severity is above 0 and at most 1
\* (100 hundredths).
C9_SeverityInRange ==
    GapsDone => \A i \in 1..Len(Gaps) : Gaps[i].severity > 0 /\ Gaps[i].severity <= 100

\* C9 failing case: a lens whose score is within 0.02 of the 4.0 threshold is
\* reported as a gap of severity 0.
C9_Witness ==
    /\ GapsDone
    /\ \E i \in 1..Len(Gaps) :
          /\ Gaps[i].type = "lens" /\ Gaps[i].severity = 0
          /\ Val(lv).lens_s[Gaps[i].lens] < LENS_MIN_SCORE
          /\ Val(lv).lens_s[Gaps[i].lens] >= LENS_MIN_SCORE - 20

\* the weeks-active values of the request's items
WeeksActive ==
    [i \in 1..Len(req.portfolio) |->
        weeks_between(req.portfolio[i].start_date, req.portfolio[i].end_date, today)]
\* the k-th smallest of a list: fewer than k values lie below it and at least k
\* values lie at or below it
KthSmallest(ws, k) ==
    CHOOSE m \in {ws[i] : i \in 1..Len(ws)} :
        /\ Cardinality({i \in 1..Len(ws) : ws[i] < m}) < k
        /\ Cardinality({i \in 1..Len(ws) : ws[i] <= m}) >= k
LowerMedian(ws) == KthSmallest(ws, (Len(ws) + 1) \div 2)
UpperMedian(ws) == KthSmallest(ws, (Len(ws) \div 2) + 1)
\* one duration gap with severity (8 - m)/8 to two decimals when m < 8, none
\* otherwise
DurationGapFor(m) ==
    /\ (m < 8) <=> GapsOfType("duration") # {}
    /\ Cardinality(GapsOfType("duration")) <= 1
    /\ \A i \in GapsOfType("duration") :
          /\ 8 * Gaps[i].severity - 100 * (8 - m) <= 4
          /\ 100 * (8 - m) - 8 * Gaps[i].severity <= 4

\* C10 as stated: the median is the lower of the two middle values for an even
\* number of items; a duration gap is emitted iff it is below 8, with severity
\* (8 - median)/8.
C10_LowerMedianDuration ==
    (GapsDone /\ req.portfolio # <<>>) => DurationGapFor(LowerMedian(WeeksActive))

\* C10 amended: the median is the upper of the two middle values for an even
\* number of items (the middle value for an odd number); a duration gap is
\* emitted iff it is below 8, with severity (8 - median)/8; an empty portfolio
\* has no duration gap.
C10_UpperMedianDuration ==
    GapsDone =>
        /\ req.portfolio # <<>> => DurationGapFor(UpperMedian(WeeksActive))
        /\ req.portfolio = <<>> => GapsOfType("duration") = {}

\* C10 witness: an even number of items whose two middle values lie on either
\* side of 8 weeks, and no duration gap.
C10_Witness ==
    /\ GapsDone /\ req.portfolio # <<>>
    /\ Len(req.portfolio) % 2 = 0
    /\ LowerMedian(WeeksActive) < 8
    /\ UpperMedian(WeeksActive) >= 8
    /\ GapsOfType("duration") = {}

(***************************************************************************)
(* normalize_impacts on its own                                            *)
(*                                                                         *)
(* Raw values are in units of 1e-10, so that the tolerance 1e-9 of          *)
(* `abs(mx - mn) < 1e-9` is 10 units.                                      *)
(***************************************************************************)
NormIds == {"a", "b", "c"}
\* raw values: equal ones, ones 4e-10 and 1e-9 apart, and ones far apart
NormValues == {0, 4, 10, 25, 1000, 3000}
\* 1e-9 in units of 1e-10
NormTolerance == 10

\* Dict[str, float]: the maps from a set of ids to raw values, the empty one
\* included
ImpactMaps == UNION {[ids -> NormValues] : ids \in SUBSET NormIds}

InitNorm ==
    /\ op = "normalize_impacts"
    /\ req \in {[impacts |-> m] : m \in ImpactMaps}
    /\ today = Today
    /\ gpt = Unavailable
    /\ resp = None
    /\ lv = None
    /\ pc = "call"

NormalizeImpacts ==
    /\ pc = "call"
    /\ op = "normalize_impacts"
    /\ resp' = Some(normalize_impacts_tol(req.impacts, NormTolerance))
    /\ pc' = "done"
    /\ UNCHANGED <<op, req, today, gpt, lv>>

NextNorm == NormalizeImpacts

SpecNorm == InitNorm /\ [][NextNorm]_vars

(***************************************************************************)
(* Properties of normalize_impacts                                         *)
(***************************************************************************)
NormDone == pc = "done" /\ op = "normalize_impacts"
Raw == req.impacts
Norm == Val(resp)
RawMin == SetMin({Raw[k] : k \in DOMAIN Raw})
RawMax == SetMax({Raw[k] : k \in DOMAIN Raw})
\* same ids, values in [0,10], order preserved; the empty map for the empty map
NormShape ==
    /\ DOMAIN Norm = DOMAIN Raw
    /\ \A k \in DOMAIN Norm : Norm[k] >= 0 /\ Norm[k] <= 10000
    /\ \A j, k \in DOMAIN Raw : Raw[j] <= Raw[k] => Norm[j] <= Norm[k]
\* the minimum maps to 0 and the maximum to 10
NormEnds ==
    \A k \in DOMAIN Raw : /\ Raw[k] = RawMin => Norm[k] = 0
                          /\ Raw[k] = RawMax => Norm[k] = 10000

LensScores == Val(lv).lens_s
LensesWithEvidence == {req.portfolio[i].lens : i \in 1..Len(req.portfolio)}
\* an entry per lens, 0 for a lens without evidence, every score in [0,10]
LensShape ==
    /\ DOMAIN LensScores = Lenses
    /\ \A k \in Lenses \ LensesWithEvidence : LensScores[k] = 0
    /\ \A k \in Lenses : LensScores[k] >= 0 /\ LensScores[k] <= 10000

\* C12 as stated: an entry per lens, 0 without evidence, scores in [0,10], and
\* the strongest lens at exactly 10, for every portfolio.
C12_StrongestIsTen ==
    GapsDone => LensShape /\ \E k \in Lenses : LensScores[k] = 10000

\* C12 amended: an entry per lens, 0 without evidence, scores in [0,10]; the
\* strongest lens is at exactly 10 when the portfolio is not empty, and all six
\* lenses are 0 when it is empty.
C12_StrongestIsTenUnlessEmpty ==
    GapsDone =>
        /\ LensShape
        /\ req.portfolio # <<>> => \E k \in Lenses : LensScores[k] = 10000
        /\ req.portfolio = <<>> => \A k \in Lenses : LensScores[k] = 0

\* C12 witness: three lenses with evidence, one at 10, one strictly between 0
\* and 10, and a lens without evidence at 0.
C12_Witness ==
    /\ GapsDone
    /\ Cardinality(LensesWithEvidence) = 3
    /\ \E k \in LensesWithEvidence : LensScores[k] = 10000
    /\ \E k \in LensesWithEvidence : LensScores[k] > 0 /\ LensScores[k] < 10000
    /\ \E k \in Lenses \ LensesWithEvidence : LensScores[k] = 0

(***************************************************************************)
(* detect_spike on its own                                                 *)
(***************************************************************************)
\* longest portfolio handed to detect_spike
MaxSpikeItems == 3
\* Evidence.theme_tags: none, one tag, a tag in capitals, two tags
SpikeTags == {<<>>, <<"ai">>, <<"art">>, <<"AI", "art">>, <<"bio">>}
\* normalised impacts in thousandths; 3.5 + 3.5 + 3.0 puts a bucket at exactly
\* 0.35 of the total
SpikeImpacts == {0, 3000, 3500, 10000}
\* Evidence.id of the item at a position
SpikeId(i) == <<"i1", "i2", "i3", "i4">>[i]

\* the portfolios of n items, each with its impact
SpikeRequests(n) ==
    {[portfolio |-> [i \in 1..n |-> [id |-> SpikeId(i), theme_tags |-> tags[i]]],
      impacts_norm |-> [id \in {SpikeId(i) : i \in 1..n} |->
                           imps[CHOOSE i \in 1..n : SpikeId(i) = id]]] :
        tags \in [1..n -> SpikeTags], imps \in [1..n -> SpikeImpacts]}

InitSpike ==
    /\ op = "detect_spike"
    /\ \E n \in 0..MaxSpikeItems : req \in SpikeRequests(n)
    /\ today = Today
    /\ gpt = Unavailable
    /\ resp = None
    /\ lv = None
    /\ pc = "call"

DetectSpike ==
    /\ pc = "call"
    /\ op = "detect_spike"
    /\ resp' = Some(detect_spike(req.portfolio, req.impacts_norm))
    /\ pc' = "done"
    /\ UNCHANGED <<op, req, today, gpt, lv>>

NextSpike == DetectSpike

SpecSpike == InitSpike /\ [][NextSpike]_vars

(***************************************************************************)
(* Properties of detect_spike                                              *)
(***************************************************************************)
SpikeDone == pc = "done" /\ op = "detect_spike"
SpikeTheme == Val(resp).theme
SpikeShare == Val(resp).share
\* positions of the items that have theme tags, and their first tag
Tagged == {i \in 1..Len(req.portfolio) : req.portfolio[i].theme_tags # <<>>}
FirstTag(i) == Lower(req.portfolio[i].theme_tags[1])
ImpactAt(i) == req.impacts_norm[req.portfolio[i].id]
RECURSIVE SumImpacts(_)
SumImpacts(S) ==
    IF S = {} THEN 0
    ELSE LET i == CHOOSE i \in S : TRUE IN ImpactAt(i) + SumImpacts(S \ {i})
\* the sum of the bucket of a theme, and the sum of all buckets
BucketSum(t) == SumImpacts({i \in Tagged : FirstTag(i) = t})
BucketTotal == SumImpacts(Tagged)
\* the position at which a theme is first encountered
FirstSeen(t) == SetMin({i \in Tagged : FirstTag(i) = t})
TopBucketSum == SetMax({BucketSum(FirstTag(i)) : i \in Tagged})

\* C13: the share is in [0,1]; a theme is reported iff the top bucket's share
\* is at least 0.35; below 0.35 the theme is absent and the share returned is
\* still the top bucket's share.
C13_ThemeIffShare ==
    SpikeDone =>
        /\ SpikeShare >= 0 /\ SpikeShare <= 1000
        /\ SpikeTheme # None <=> SpikeShare >= 350
        /\ BucketTotal > 0 => SpikeShare = (1000 * TopBucketSum) \div BucketTotal
        /\ BucketTotal > 0 =>
              (SpikeTheme # None <=> 1000 * TopBucketSum >= 350 * BucketTotal)

\* C13 witness: three equal buckets, so that the top share is a third: no
\* theme, and the share returned.
C13_Witness ==
    /\ SpikeDone
    /\ Cardinality({FirstTag(i) : i \in Tagged}) = 3
    /\ SpikeTheme = None
    /\ SpikeShare = 333

\* C14: an item counts only under its first tag, an item without tags counts
\* nowhere, and among the buckets with the largest sum the one encountered
\* first in portfolio order is returned.
C14_FirstTagFirstMax ==
    (SpikeDone /\ SpikeTheme # None) =>
        LET t == Val(SpikeTheme)
        IN  /\ t \in {FirstTag(i) : i \in Tagged}
            /\ SpikeShare = (1000 * BucketSum(t)) \div BucketTotal
            /\ \A i \in Tagged :
                  /\ BucketSum(FirstTag(i)) <= BucketSum(t)
                  /\ BucketSum(FirstTag(i)) = BucketSum(t) => FirstSeen(t) <= i

\* C14 witness: an untagged item with the largest impact, an item with two
\* tags, and two buckets tied for the largest sum; the theme returned is the
\* one of the first item.
C14_Witness ==
    /\ SpikeDone /\ SpikeTheme # None
    /\ \E i \in 1..Len(req.portfolio) : i \notin Tagged /\ ImpactAt(i) = 10000
    /\ \E i \in Tagged : Len(req.portfolio[i].theme_tags) = 2
    /\ \E i \in Tagged : /\ FirstTag(i) # Val(SpikeTheme)
                         /\ BucketSum(FirstTag(i)) = BucketSum(Val(SpikeTheme))
    /\ 1 \in Tagged /\ FirstTag(1) = Val(SpikeTheme)
    /\ SpikeShare = 500

(***************************************************************************)
(* Calls of alignment_for_school                                           *)
(***************************************************************************)
\* StudentProfile.gpa_unweighted in tenths: absent, 0.0, 2.0, 3.1, 4.0
GpaValues == {None, Some(0), Some(20), Some(31), Some(40)}
\* StudentProfile.grades_by_subject: empty, one rigorous grade of two, seven
\* rigorous grades
GradeMaps ==
    { [subj \in {} |-> ""],
      [subj \in {"math", "physics"} |-> IF subj = "math" THEN "a" ELSE "B"],
      [subj \in {"math", "physics", "chemistry", "biology", "history", "english",
                 "art"} |-> IF subj = "math" THEN "A*" ELSE "hl"] }
AlignProfiles ==
    {None} \cup
    {Some(p) : p \in [gpa_unweighted : GpaValues, grades_by_subject : GradeMaps,
                      tests : [sat : SatTests, act : ActTests]]}

\* SchoolContext.factor_importance: absent, every dimension not_considered, and
\* a map that names some dimensions only
FactorMaps ==
    { None,
      Some([k \in {ALIGN_DIMS[i] : i \in 1..Len(ALIGN_DIMS)} |-> "not_considered"]),
      Some([k \in {"gpa", "test_scores", "interest"} |->
               CASE k = "gpa" -> "very_important" [] k = "test_scores" -> "important"
                 [] OTHER -> "not_considered"]) }
AlignContexts ==
    {None} \cup
    {Some(c) : c \in [mid50_scores : [sat_composite : SatBands, act_composite : ActBands],
                      factor_importance : FactorMaps,
                      recommenders_required : {None, Some(1), Some(3)}]}

\* lens-score maps with scores in [0,10]
AlignLensMaps ==
    { [k \in Lenses |-> 0], [k \in Lenses |-> 10000],
      [k \in Lenses |-> CASE k = "Creativity" -> 10000 [] k = "Growth" -> 4000
                          [] k = "Community" -> 2500 [] OTHER -> 0] }

InitAlign ==
    /\ op = "alignment_for_school"
    /\ req \in [ctx : AlignContexts, prof : AlignProfiles, lens_s : AlignLensMaps]
    /\ today = Today
    /\ gpt = Unavailable
    /\ resp = None
    /\ lv = None
    /\ pc = "call"

AlignmentForSchool ==
    /\ pc = "call"
    /\ op = "alignment_for_school"
    /\ resp' = Some(alignment_for_school(req.ctx, req.prof, req.lens_s))
    /\ pc' = "done"
    /\ UNCHANGED <<op, req, today, gpt, lv>>

NextAlign == AlignmentForSchool

SpecAlign == InitAlign /\ [][NextAlign]_vars

(***************************************************************************)
(* Properties of alignment_for_school                                      *)
(***************************************************************************)
AlignDone == pc = "done" /\ op = "alignment_for_school"
AllNotConsidered ==
    /\ req.ctx # None /\ Val(req.ctx).factor_importance # None
    /\ \A i \in 1..Len(ALIGN_DIMS) :
          /\ ALIGN_DIMS[i] \in DOMAIN Val(Val(req.ctx).factor_importance)
          /\ Val(Val(req.ctx).factor_importance)[ALIGN_DIMS[i]] = "not_considered"

\* C15 as stated: for every context, profile and lens map the result is a
\* number in [0,1]; it is 0 when all seven factors are not_considered and when
\* the context or the profile is absent.
C15_AlignmentInUnitRange ==
    AlignDone =>
        /\ Val(resp).raises = ""
        /\ Val(resp).value >= 0 /\ Val(resp).value <= 1000
        /\ AllNotConsidered => Val(resp).value = 0
        /\ (req.ctx = None \/ req.prof = None) => Val(resp).value = 0

\* C15 failing case: an SAT score on file, an SAT band of one element, and the
\* call raises IndexError instead of returning a number.
C15_Witness ==
    /\ AlignDone
    /\ req.ctx # None /\ req.prof # None
    /\ ScoreOf(Val(req.prof).tests.sat) # None
    /\ Len(Val(req.ctx).mid50_scores.sat_composite) = 1
    /\ Val(resp).raises = "IndexError"

(***************************************************************************)
(* _tests_norm on its own                                                  *)
(***************************************************************************)
\* scores below, at, between and above the band marks
NormSatScores == {1100, 1200, 1290, 1350, 1400, 1500, 1550}
NormActScores == {20, 24, 27, 30, 32, 34, 36}
NormSatTests == {None, Some([score |-> None])} \cup {Some([score |-> Some(s)]) : s \in NormSatScores}
NormActTests == {None} \cup {Some([score |-> Some(s)]) : s \in NormActScores}
NormSatBands == {<<>>, <<1200, 1350, 1500>>, <<1000, 1100, 1400>>, <<1300>>}
NormActBands == {<<>>, <<24, 30, 34>>}

InitTestsNorm ==
    /\ op = "tests_norm"
    /\ req \in [profile : {None} \cup {Some([tests |-> t]) :
                               t \in [sat : NormSatTests, act : NormActTests]},
                mid50 : [sat_composite : NormSatBands, act_composite : NormActBands]]
    /\ today = Today
    /\ gpt = Unavailable
    /\ resp = None
    /\ lv = None
    /\ pc = "call"

TestsNorm ==
    /\ pc = "call"
    /\ op = "tests_norm"
    /\ resp' = Some(tests_norm(req.profile, req.mid50))
    /\ pc' = "done"
    /\ UNCHANGED <<op, req, today, gpt, lv>>

NextTestsNorm == TestsNorm

SpecTestsNorm == InitTestsNorm /\ [][NextTestsNorm]_vars

(***************************************************************************)
(* Properties of _tests_norm                                               *)
(***************************************************************************)
TestsNormDone == pc = "done" /\ op = "tests_norm"
NormSat == IF req.profile = None THEN None ELSE ScoreOf(Val(req.profile).tests.sat)
NormAct == IF req.profile = None THEN None ELSE ScoreOf(Val(req.profile).tests.act)
SatSelected == NormSat # None /\ req.mid50.sat_composite # <<>>
ActSelected == ~SatSelected /\ NormAct # None /\ req.mid50.act_composite # <<>>
SelectedScore == IF SatSelected THEN Val(NormSat) ELSE Val(NormAct)
SelectedBand == IF SatSelected THEN req.mid50.sat_composite ELSE req.mid50.act_composite
SelectedScores == IF SatSelected THEN NormSatScores ELSE NormActScores
\* a band [p25, p50, p75] with p25 < p50 < p75
OrderedBand(band) == Len(band) = 3 /\ band[1] < band[2] /\ band[2] < band[3]
\* v is the position of s on the line from (a, 0.0 + base) to (b, 0.5 + base),
\* to the thousandth
OnLine(v, s, a, b, base) ==
    /\ (b - a) * (v - base) <= 500 * (s - a)
    /\ 500 * (s - a) < (b - a) * (v - base + 1)
\* the position the statement gives to a score against an ordered band
StatedPosition(v, s, band) ==
    /\ s <= band[1] => v = 0
    /\ s = band[2] => v = 500
    /\ s >= band[3] => v = 1000
    /\ (band[1] < s /\ s < band[2]) => OnLine(v, s, band[1], band[2], 0)
    /\ (band[2] < s /\ s < band[3]) => OnLine(v, s, band[2], band[3], 500)

\* C16: against an ordered band the value of the selected test (SAT when an SAT
\* score and an SAT band exist, otherwise ACT) is 0 up to p25, 0.5 at p50, 1
\* from p75, linear on each half, and non-decreasing in the score; it is 0
\* with no usable score or band.
C16_PiecewiseLinear ==
    TestsNormDone =>
        /\ (~SatSelected /\ ~ActSelected) =>
              Val(resp).raises = "" /\ Val(resp).value = 0
        /\ ((SatSelected \/ ActSelected) /\ OrderedBand(SelectedBand)) =>
              /\ Val(resp).raises = ""
              /\ StatedPosition(Val(resp).value, SelectedScore, SelectedBand)
              /\ \A s \in SelectedScores :
                    LET other == BandPosition(s, SelectedBand).value
                    IN  /\ StatedPosition(other, s, SelectedBand)
                        /\ s <= SelectedScore => other <= Val(resp).value
                        /\ s >= SelectedScore => other >= Val(resp).value

\* C16 witness: SAT 1350 against [1200, 1350, 1500] gives 0.5 exactly, while
\* the ACT score on file lies below its band.
C16_Witness ==
    /\ TestsNormDone
    /\ SatSelected /\ SelectedScore = 1350
    /\ SelectedBand = <<1200, 1350, 1500>>
    /\ NormAct # None /\ req.mid50.act_composite # <<>>
    /\ Val(NormAct) < req.mid50.act_composite[1]
    /\ Val(resp).value = 500

(***************************************************************************)
(* check_eligibility                                                       *)
(***************************************************************************)
\* GPA warning threshold 2.5, in tenths
MIN_GPA == 25
\* buffers below p25 of the score warnings
SAT_P25_BUFFER == 100
ACT_P25_BUFFER == 2

\* `if ctx.gpa_profile and ctx.gpa_profile.avg_hs_gpa:` then
\* `if profile.gpa_unweighted and profile.gpa_unweighted < 2.5`
GpaWarnings(profile, ctx) ==
    IF /\ ctx.gpa_profile # None
       /\ Val(ctx.gpa_profile).avg_hs_gpa # None
       /\ Val(Val(ctx.gpa_profile).avg_hs_gpa) # 0
       /\ profile.gpa_unweighted # None
       /\ Val(profile.gpa_unweighted) # 0
       /\ Val(profile.gpa_unweighted) < MIN_GPA
    THEN << [kind |-> "gpa_below_threshold"] >>
    ELSE <<>>

\* the required subjects that are no key of grades_by_subject
SubjectErrors(profile, ctx) ==
    LET missing == SelectSeq(ctx.required_subjects,
                             LAMBDA subj : subj \notin DOMAIN profile.grades_by_subject)
    IN  IF ctx.required_subjects # <<>> /\ missing # <<>>
        THEN << [kind |-> "missing_subjects", subjects |-> missing] >>
        ELSE <<>>

\* faulty variant: an ACT score does not count as a score on file
TestErrors_SatOnly(profile, ctx) ==
    IF /\ ctx.test_policy # None
       /\ Val(ctx.test_policy).admission_use = "required"
       /\ ScoreOf(profile.tests.sat) = None
    THEN << [kind |-> "tests_required"] >>
    ELSE <<>>

\* required policy and neither `has_sat` nor `has_act`
TestErrors(profile, ctx) ==
    IF /\ ctx.test_policy # None
       /\ Val(ctx.test_policy).admission_use = "required"
       /\ ScoreOf(profile.tests.sat) = None
       /\ ScoreOf(profile.tests.act) = None
    THEN << [kind |-> "tests_required"] >>
    ELSE <<>>

\* a score more than the buffer below `mid50[key][0]`
ScoreWarnings(profile, ctx) ==
    LET sat == ScoreOf(profile.tests.sat)
        act == ScoreOf(profile.tests.act)
        mid50 == ctx.mid50_scores
    IN  (IF /\ mid50.sat_composite # <<>> /\ sat # None
            /\ Val(sat) < mid50.sat_composite[1] - SAT_P25_BUFFER
         THEN << [kind |-> "sat_below_p25"] >> ELSE <<>>)
        \o
        (IF /\ mid50.act_composite # <<>> /\ act # None
            /\ Val(act) < mid50.act_composite[1] - ACT_P25_BUFFER
         THEN << [kind |-> "act_below_p25"] >> ELSE <<>>)

check_eligibility(r) ==
    LET profile == r.student_profile
        ctx == r.school_context
        warnings == GpaWarnings(profile, ctx) \o ScoreWarnings(profile, ctx)
        errors == SubjectErrors(profile, ctx) \o TestErrors(profile, ctx)
    IN  [eligible |-> Len(errors) = 0, warnings |-> warnings, errors |-> errors]

(***************************************************************************)
(* Requests of check_eligibility                                           *)
(***************************************************************************)
\* SchoolContext.gpa_profile: absent, without an average, with an average 3.5
GpaProfiles == {None, Some([avg_hs_gpa |-> None]), Some([avg_hs_gpa |-> Some(35)])}
\* SchoolContext.required_subjects
RequiredSubjects == {<<>>, <<"math">>, <<"math", "latin">>}
EligibilityPolicies == {None} \cup {Some([admission_use |-> u]) : u \in TestUse}

EligibilityCheckRequests ==
    [student_profile : [gpa_unweighted : GpaValues, grades_by_subject : GradeMaps,
                        tests : [sat : SatTests, act : ActTests]],
     school_context : [gpa_profile : GpaProfiles,
                       required_subjects : RequiredSubjects,
                       test_policy : EligibilityPolicies,
                       mid50_scores : [sat_composite : SatBands,
                                       act_composite : ActBands]]]

InitEligibility ==
    /\ op = "check_eligibility"
    /\ req \in EligibilityCheckRequests
    /\ today = Today
    /\ gpt = Unavailable
    /\ resp = None
    /\ lv = None
    /\ pc = "call"

\* POST /eligibility/check
CheckEligibility ==
    /\ pc = "call"
    /\ op = "check_eligibility"
    /\ resp' = Some(check_eligibility(req))
    /\ pc' = "done"
    /\ UNCHANGED <<op, req, today, gpt, lv>>

NextEligibility == CheckEligibility

SpecEligibility == InitEligibility /\ [][NextEligibility]_vars

(***************************************************************************)
(* Properties of check_eligibility                                         *)
(***************************************************************************)
EligDone == pc = "done" /\ op = "check_eligibility"
Eligible == Val(resp).eligible
Errors == Val(resp).errors
Warnings == Val(resp).warnings
HasWarning(kind) == \E i \in 1..Len(Warnings) : Warnings[i].kind = kind
SubjectMissing ==
    \E i \in 1..Len(req.school_context.required_subjects) :
        req.school_context.required_subjects[i]
            \notin DOMAIN req.student_profile.grades_by_subject
NoScoreOnFile ==
    /\ ScoreOf(req.student_profile.tests.sat) = None
    /\ ScoreOf(req.student_profile.tests.act) = None
TestsRequired ==
    /\ req.school_context.test_policy # None
    /\ Val(req.school_context.test_policy).admission_use = "required"
GpaBelowThreshold ==
    /\ req.student_profile.gpa_unweighted # None
    /\ Val(req.student_profile.gpa_unweighted) < 25

\* C17: eligible iff there is no error; there is an error exactly when a
\* required subject is missing from the grade mapping or the policy is
\* required and neither an SAT nor an ACT score is on file.
C17_EligibleIffNoErrors ==
    EligDone =>
        /\ Eligible <=> Errors = <<>>
        /\ Errors # <<>> <=> (SubjectMissing \/ (TestsRequired /\ NoScoreOnFile))

\* C17 witness: a required policy, an ACT score only, all required subjects
\* graded, two warnings, and the student is eligible.
C17_Witness ==
    /\ EligDone
    /\ TestsRequired
    /\ ScoreOf(req.student_profile.tests.sat) = None
    /\ ScoreOf(req.student_profile.tests.act) # None
    /\ req.school_context.required_subjects # <<>>
    /\ Len(Warnings) = 2
    /\ Eligible

\* C18 as stated: a GPA below 2.5 always gives a GPA warning, whatever the
\* school context, and the warning alone leaves the student eligible.
C18_LowGpaWarns ==
    (EligDone /\ GpaBelowThreshold) =>
        /\ HasWarning("gpa_below_threshold")
        /\ Errors = <<>> => Eligible

\* C18 failing case: a GPA of 2.0, a school context without a GPA profile, and
\* no GPA warning.
C18_Witness ==
    /\ EligDone
    /\ req.student_profile.gpa_unweighted = Some(20)
    /\ req.school_context.gpa_profile = None
    /\ ~HasWarning("gpa_below_threshold")

(***************************************************************************)
(* analyze_portfolio with schools, score bands and the generative service  *)
(***************************************************************************)
\* longest portfolio of these requests
MaxAnalyzeItems == 1

\* replies of the generative service to the structured prompt: an empty JSON
\* object, and sections of four, no and one task
GptTitle(n) == <<"Suggested", "task", n>>
StructuredReplies ==
    { [critical_improvements |-> <<>>, lens_improvements |-> <<>>,
       diversity_spike |-> None, alignment_priorities |-> <<>>],
      [critical_improvements |->
           << [gap_type |-> "lens", severity |-> 50,
               tasks |-> <<GptTitle("1"), GptTitle("2"), GptTitle("3"), GptTitle("4")>>],
              [gap_type |-> "duration", severity |-> 25, tasks |-> <<>>] >>,
       lens_improvements |->
           << [lens |-> "Growth", current_score |-> 5000, tasks |-> <<GptTitle("5")>>] >>,
       diversity_spike |->
           Some([has_spike |-> FALSE, needs_improvement |-> TRUE, tasks |-> <<>>]),
       alignment_priorities |->
           << [school_name |-> "MIT", is_high_alignment |-> FALSE,
               priority_tasks |-> <<>>] >>] }
GptStates == {Unavailable, Failing} \cup {Answering(reply) : reply \in StructuredReplies}

AnalyzePool ==
    {ev \in EvidencePool : ev.id \in {"e1", "e3", "e4"}}
AnalyzePortfolios ==
    {p \in SeqsUpTo(AnalyzePool, MaxAnalyzeItems) :
        \A i, j \in 1..Len(p) : i # j => p[i] # p[j]}

\* school contexts with and without score bands, a band of one value included
AnalyzeContexts ==
    {None} \cup
    {Some(c) : c \in
        [recommenders_required : {None}, factor_importance : {None},
         mid50_scores : [sat_composite : SatBands, act_composite : ActBands],
         test_policy : {None} \cup
             {Some([admission_use |-> u, latest_submission_date |-> d]) :
                 u \in TestUse, d \in {None, Some(DateStr("datetime", 156))}},
         application_rounds :
             {<<>>, <<[closing_date |-> Some(DateStr("date", 240))]>>}]}
\* profiles with and without scores on file
AnalyzeProfiles ==
    {None} \cup
    {Some(p) : p \in
        [intended_major : {None}, gpa_unweighted : {Some(31)},
         grades_by_subject : {[subj \in {} |-> ""]},
         tests : [sat : {None, Some([score |-> Some(1290)]), Some([score |-> Some(1400)])},
                  act : {None, Some([score |-> Some(30)])}]]}

FullAnalyzeRequests ==
    [portfolio : AnalyzePortfolios, school_context : AnalyzeContexts,
     student_profile : AnalyzeProfiles, schools : SchoolLists,
     weekly_hours_cap : {2, DEFAULT_HOURS_CAP}]

InitAnalyze ==
    /\ op = "analyze"
    /\ req \in FullAnalyzeRequests
    /\ today = Today
    /\ gpt \in GptStates
    /\ resp = None
    /\ lv = None
    /\ pc = "call"

NextAnalyze == AnalyzePortfolio

SpecAnalyze == InitAnalyze /\ [][NextAnalyze]_vars

(***************************************************************************)
(* Properties of analyze_portfolio                                         *)
(***************************************************************************)
AnalyzeDone == pc = "done" /\ op = "analyze"
AnalyzeResult == Val(resp)
\* the result holds scores, gaps and every recommendation section
CompleteResult ==
    /\ AnalyzeResult.raises = ""
    /\ {"scores", "gaps", "critical_improvements", "lens_improvements",
        "diversity_spike", "alignment_priorities", "standardized_tests"}
          \subseteq DOMAIN AnalyzeResult

\* C19: whatever the request and whether the generative service is available,
\* unavailable or failing, analyze_portfolio returns a complete result and
\* raises nothing.
C19_CompleteResultNeverRaises == AnalyzeDone => CompleteResult

\* C19 failing case: a school is listed, the context holds an SAT band of one
\* value, the student has an SAT score on file, and the call raises IndexError.
C19_Witness ==
    /\ AnalyzeDone
    /\ req.schools = <<"MIT">>
    /\ req.school_context # None /\ req.student_profile # None
    /\ Val(req.school_context).mid50_scores.sat_composite = <<1300>>
    /\ Val(req.student_profile).tests.sat = Some([score |-> Some(1290)])
    /\ AnalyzeResult.raises = "IndexError"

\* every call that does not meet a band of one value returns a complete result,
\* with the service answering, failing or unavailable
C19_CompleteWhenBandsOrdered ==
    AnalyzeDone =>
        \/ CompleteResult
        \/ /\ req.schools # <<>> /\ req.school_context # None /\ req.student_profile # None
           /\ \/ Len(Val(req.school_context).mid50_scores.sat_composite) = 1
              \/ Len(Val(req.school_context).mid50_scores.act_composite) = 1

(***************************************************************************)
(* regenerate_tasks_for_section                                            *)
(*                                                                         *)
(* A title is its sequence of words, so `a in b` on two titles is "a is a   *)
(* run of consecutive words of b"; the empty string is the empty sequence. *)
(***************************************************************************)
\* `title.lower()`
LowerWords(title) == [i \in 1..Len(title) |-> Lower(title[i])]

\* `excluded.lower() in title.lower()`
OccursIn(excluded, title) ==
    \E i \in 0..(Len(title) - Len(excluded)) :
        SubSeq(LowerWords(title), i + 1, i + Len(excluded)) = LowerWords(excluded)

\* `any(excluded.lower() in title.lower() for excluded in exclude_titles)`
IsExcluded(title, exclude_titles) ==
    \E i \in 1..Len(exclude_titles) : OccursIn(exclude_titles[i], title)

\* the filter of the fallbacks: the templates that no excluded title occurs in,
\* three at most
NotExcluded(alternatives, exclude_titles) ==
    Take(SelectSeq(alternatives, LAMBDA title : ~IsExcluded(title, exclude_titles)), 3)

\* `_get_fallback_alternative_tasks_for_gap`: templates for a lens gap, none
\* for a gap of another type
get_fallback_alternative_tasks_for_gap(gap, exclude_titles) ==
    LET lens == GapLens(gap)
        alternatives ==
            IF gap.type = "lens" /\ lens # None
            THEN IF Val(lens) = "Achievements"
                 THEN << <<"Submit", "to", "academic", "journals", "or", "conferences">>,
                         <<"Create", "a", "public", "showcase", "of", "your", "work">>,
                         <<"Mentor", "others", "and", "document", "the", "impact">> >>
                 ELSE IF Val(lens) = "Growth"
                 THEN << <<"Take", "on", "a", "challenging", "certification", "program">>,
                         <<"Start", "a", "learning", "journal", "documenting", "progress">>,
                         <<"Join", "a", "study", "group", "or", "learning", "community">> >>
                 ELSE << <<"Explore", "new", Lower(Val(lens)), "opportunities">>,
                         <<"Document", "your", Lower(Val(lens)), "journey">>,
                         <<"Deepen", "your", Lower(Val(lens)), "engagement">> >>
            ELSE <<>>
    IN  NotExcluded(alternatives, exclude_titles)

\* `_get_fallback_alternative_tasks_for_lens`
get_fallback_alternative_tasks_for_lens(lens, exclude_titles) ==
    NotExcluded(<< <<"Alternative", "approach", "to", "enhance", lens>>,
                   <<"Creative", "way", "to", "build", lens, "strength">>,
                   <<"Different", "strategy", "for", lens, "improvement">> >>,
                exclude_titles)

\* `_get_fallback_alternative_tasks_for_diversity_spike`
get_fallback_alternative_tasks_for_diversity_spike(exclude_titles) ==
    NotExcluded(<< <<"Alternative", "approach", "to", "build", "spike">>,
                   <<"Different", "strategy", "for", "diversity">>,
                   <<"Creative", "way", "to", "improve", "portfolio", "balance">> >>,
                exclude_titles)

\* the reply titles kept: of the first three, those that no excluded title
\* occurs in and that occur in no excluded title
KeptTitles(titles, exclude_titles) ==
    SelectSeq(Take(titles, 3),
              LAMBDA title : ~\E i \in 1..Len(exclude_titles) :
                                  \/ OccursIn(exclude_titles[i], title)
                                  \/ OccursIn(title, exclude_titles[i]))

\* the body shared by `_generate_alternative_tasks_for_gap`, `_for_lens` and
\* `_for_diversity_spike`: the fallback without a client or when the call
\* raises; otherwise the kept titles, extended by the fallback
\* `while len(tasks) < 3`, cut to three.  None stands for a loop that never
\* ends: fewer than three kept titles and an empty fallback.
generate_alternative_tasks(fallback, exclude_titles, service) ==
    IF service.mode # "answers" THEN Some(fallback)
    ELSE LET kept == KeptTitles(service.reply, exclude_titles)
         IN  IF Len(kept) >= 3 THEN Some(Take(kept, 3))
             ELSE IF fallback = <<>> THEN None
             ELSE Some(Take(kept \o fallback \o fallback \o fallback, 3))

\* the gap a critical_improvements request is about: the first gap of the lens
\* or type named, or the first gap of the highest severity without a name
TargetGap(gaps, section_identifier) ==
    IF section_identifier # None /\ Val(section_identifier) # ""
    THEN LET hits == {i \in 1..Len(gaps) :
                        \/ gaps[i].type = "lens" /\ gaps[i].lens = Val(section_identifier)
                        \/ gaps[i].type = Val(section_identifier)}
         IN  IF hits = {} THEN None ELSE Some(gaps[SetMin(hits)])
    ELSE IF gaps = <<>> THEN None
    ELSE LET top == SetMax({gaps[i].severity : i \in 1..Len(gaps)})
         IN  Some(gaps[SetMin({i \in 1..Len(gaps) : gaps[i].severity = top})])

\* the call never returns
NeverReturns == [raises |-> "", returns |-> FALSE]

\* the response of a section, or NeverReturns when the tasks never come
SectionResponse(section_type, section_identifier, tasks) ==
    IF tasks = None THEN NeverReturns
    ELSE Returned([section_type |-> section_type,
                   section_identifier |-> section_identifier, tasks |-> Val(tasks)])

regenerate_tasks_for_section(r, section_type, section_identifier, excluded, now, service) ==
    LET prof == r.student_profile
        impacts_norm == normalize_impacts(ImpactsRaw(r.portfolio, now))
        lens_s == IF DOMAIN impacts_norm # {}
                  THEN lens_scores(r.portfolio, impacts_norm)
                  ELSE [k \in Lenses |-> 0]
        spike == detect_spike(r.portfolio, impacts_norm)
        gaps == analyze_gaps(r.portfolio, lens_s, spike, r.school_context, prof,
                             impacts_norm, now)
        named == section_identifier # None /\ Val(section_identifier) # ""
    IN  IF section_type = "critical_improvements"
        THEN LET target_gap == TargetGap(gaps, section_identifier)
             IN  IF target_gap = None THEN Raised("ValueError")
                 ELSE SectionResponse(section_type,
                         IF named THEN section_identifier
                         ELSE IF GapLens(Val(target_gap)) # None
                         THEN GapLens(Val(target_gap))
                         ELSE Some(Val(target_gap).type),
                         generate_alternative_tasks(
                             get_fallback_alternative_tasks_for_gap(Val(target_gap),
                                                                    excluded),
                             excluded, service))
        ELSE IF section_type = "lens_improvements"
        THEN IF ~named THEN Raised("ValueError")
             ELSE IF (IF Val(section_identifier) \in Lenses
                      THEN lens_s[Val(section_identifier)] ELSE 0) < LENS_MIN_SCORE
             THEN Raised("ValueError")
             ELSE SectionResponse(section_type, section_identifier,
                      generate_alternative_tasks(
                          get_fallback_alternative_tasks_for_lens(Val(section_identifier),
                                                                  excluded),
                          excluded, service))
        ELSE IF section_type = "diversity_spike"
        THEN SectionResponse(section_type, None,
                 generate_alternative_tasks(
                     get_fallback_alternative_tasks_for_diversity_spike(excluded),
                     excluded, service))
        ELSE Raised("ValueError")

(***************************************************************************)
(* Requests of regenerate_tasks_for_section                                *)
(***************************************************************************)
RegenContexts ==
    {c \in GapContexts : c = None \/ Val(c).recommenders_required = Some(3)}
OriginalRequests ==
    [portfolio : AnalyzePortfolios, school_context : RegenContexts,
     student_profile : {None}, schools : {<<>>},
     weekly_hours_cap : {DEFAULT_HOURS_CAP}]

\* RegenerateTasksRequest.section_type, and a value outside the Literal for the
\* callers that do not pass through the schema
SectionTypes == {"critical_improvements", "lens_improvements", "diversity_spike", "other"}
\* RegenerateTasksRequest.section_identifier: absent, empty, lens names, a gap
\* type, and a name that is neither
SectionIdentifiers ==
    {None, Some(""), Some("Leadership"), Some("Growth"), Some("spike"), Some("Sports")}

\* RegenerateTasksRequest.exclude_task_titles: nothing, the empty string, a
\* fallback title of the Growth gap in lower case, a title that is no
\* template, and two fallback titles of the lens and the diversity templates
ExcludeLists ==
    { <<>>,
      << <<>> >>,
      << <<"take", "on", "a", "challenging", "certification", "program">> >>,
      << <<"Yoga", "class">> >>,
      << <<"Alternative", "approach", "to", "enhance", "Leadership">>,
         <<"Different", "strategy", "for", "diversity">> >> }

\* replies of the generative service to a regeneration prompt: no task, four
\* tasks, and three tasks with an excluded and an empty title
AlternativeReplies ==
    { <<>>,
      << <<"Organise", "a", "hackathon">>, <<"Start", "a", "podcast">>,
         <<"Join", "a", "debate", "club">>, <<"Create", "a", "zine">> >>,
      << <<"Organise", "a", "hackathon">>,
         <<"Take", "on", "a", "challenging", "certification", "program">>,
         <<>> >> }
RegenGptStates == {Unavailable, Failing} \cup {Answering(reply) : reply \in AlternativeReplies}

RegenerateTasksRequests ==
    [original_request : OriginalRequests, section_type : SectionTypes,
     section_identifier : SectionIdentifiers, exclude_task_titles : ExcludeLists]

InitRegen ==
    /\ op = "regenerate_tasks"
    /\ req \in RegenerateTasksRequests
    /\ today = Today
    /\ gpt \in RegenGptStates
    /\ resp = None
    /\ lv = None
    /\ pc = "call"

\* POST /portfolio/regenerate-tasks; a call whose `while` loop never ends stays
\* in the loop and leaves no response
RegenerateTasks ==
    /\ pc = "call"
    /\ op = "regenerate_tasks"
    /\ LET out == regenerate_tasks_for_section(req.original_request, req.section_type,
                      req.section_identifier, req.exclude_task_titles, today, gpt)
       IN  IF out = NeverReturns
           THEN resp' = None /\ pc' = "loop"
           ELSE resp' = Some(out) /\ pc' = "done"
    /\ UNCHANGED <<op, req, today, gpt, lv>>

NextRegen == RegenerateTasks

SpecRegen == InitRegen /\ [][NextRegen]_vars

(***************************************************************************)
(* Properties of regenerate_tasks_for_section                              *)
(***************************************************************************)
RegenCalled == op = "regenerate_tasks" /\ pc # "call"
RegenDone == op = "regenerate_tasks" /\ pc = "done"
\* the request was accepted: no ValueError
Accepted == RegenCalled /\ (pc = "done" => Val(resp).raises = "")
ServiceDown == gpt.mode \in {"unavailable", "fails"}
RegenTasks == Val(resp).value.tasks

\* C20: with the generative service unavailable or failing, every accepted
\* regeneration request returns exactly 3 tasks, whatever the gap type and the
\* excluded titles.
C20_FallbackReturnsThreeTasks ==
    (Accepted /\ ServiceDown) => (RegenDone /\ Len(RegenTasks) = 3)

\* C20 failing case: the service is unavailable, nothing is excluded, the
\* section is the spike gap (a gap that is not a lens gap), and the accepted
\* request returns no task at all.
C20_Witness ==
    /\ RegenDone /\ Accepted
    /\ gpt = Unavailable
    /\ req.section_type = "critical_improvements"
    /\ req.section_identifier = Some("spike")
    /\ req.exclude_task_titles = <<>>
    /\ RegenTasks = <<>>

\* with nothing excluded, the fallback of a lens gap, of a lens improvement and
\* of the diversity section gives three tasks
ThreeTasksForLensSections ==
    (RegenDone /\ Accepted /\ ServiceDown /\ req.exclude_task_titles = <<>>) =>
        \/ Len(RegenTasks) = 3
        \/ /\ req.section_type = "critical_improvements"
           /\ Val(resp).value.section_identifier \notin {Some(k) : k \in Lenses}
\* an answering service whose kept titles are fewer than three, over an empty
\* fallback, leaves the call in its loop
LoopsOnlyOverEmptyFallback ==
    (op = "regenerate_tasks" /\ pc = "loop") =>
        /\ gpt.mode = "answers"
        /\ req.section_type = "critical_improvements" \/ req.exclude_task_titles # <<>>

(***************************************************************************)
(* analyze_standardized_tests on its own                                   *)
(***************************************************************************)
\* score bands of the test analysis: none, three values, and short bands of
\* one and two values
AnalysisSatBands == SatBands \cup {<<1300, 1400>>}
AnalysisActBands == ActBands \cup {<<24, 30>>}
AnalysisContexts ==
    {None} \cup
    {Some(c) : c \in [test_policy : TestPolicies,
                      application_rounds : ApplicationRounds,
                      mid50_scores : [sat_composite : AnalysisSatBands,
                                      act_composite : AnalysisActBands]]}
AnalysisProfiles ==
    {None} \cup {Some(p) : p \in [tests : [sat : SatTests, act : ActTests]]}

InitTestAnalysis ==
    /\ op = "analyze_standardized_tests"
    /\ req \in [school_context : AnalysisContexts, student_profile : AnalysisProfiles,
                weekly_hours_cap : HourCaps]
    /\ today = Today
    /\ gpt = Unavailable
    /\ resp = None
    /\ lv = None
    /\ pc = "call"

AnalyzeStandardizedTests ==
    /\ pc = "call"
    /\ op = "analyze_standardized_tests"
    /\ resp' = Some(analyze_standardized_tests(req, req.student_profile, today))
    /\ pc' = "done"
    /\ UNCHANGED <<op, req, today, gpt, lv>>

NextTestAnalysis == AnalyzeStandardizedTests

SpecTestAnalysis == InitTestAnalysis /\ [][NextTestAnalysis]_vars

(***************************************************************************)
(* Properties of analyze_standardized_tests                                *)
(***************************************************************************)
TestAnalysisDone == pc = "done" /\ op = "analyze_standardized_tests"
Analyses == Val(resp)
Recommends(rec) == Len(Analyses) = 1 /\ Analyses[1].recommendation = rec
AnalysisPolicy ==
    IF req.school_context = None THEN None ELSE Val(req.school_context).test_policy
PolicyUse == IF AnalysisPolicy = None THEN "none" ELSE Val(AnalysisPolicy).admission_use
\* the score on file that has a band, SAT before ACT, with that band
ScoreOnFile ==
    IF req.student_profile = None \/ req.school_context = None
    THEN [test_type |-> None, current_score |-> None, test_mid50 |-> <<>>]
    ELSE AnalysedTest(Val(req.student_profile), Val(req.school_context).mid50_scores)
BelowP25 ==
    /\ ScoreOnFile.current_score # None
    /\ Val(ScoreOnFile.current_score) < ScoreOnFile.test_mid50[1]
\* the runway of a required policy and the hours are enough to prepare
CanPrepare ==
    /\ RunwayWeeks(Val(req.school_context), today) >= 8
    /\ req.weekly_hours_cap >= 3

\* C21: leave_school_out is recommended exactly when the policy is required,
\* the score on file is below the band's p25, and the runway is under 8 weeks
\* or the weekly hour cap under 3.
C21_LeaveOutIffBelowP25 ==
    TestAnalysisDone =>
        (Recommends("leave_school_out") <=>
            (PolicyUse = "required" /\ BelowP25 /\ ~CanPrepare))

\* C21 failing case: tests are required, the SAT score on file (1290) is below
\* the p25 of a band of one value (1300), no week of runway is left, and the
\* recommendation is submit.
C21_Witness ==
    /\ TestAnalysisDone
    /\ PolicyUse = "required"
    /\ ScoreOnFile.current_score = Some(1290) /\ ScoreOnFile.test_mid50 = <<1300>>
    /\ RunwayWeeks(Val(req.school_context), today) = 0
    /\ Recommends("submit")

\* what does hold: leave_school_out only under a required policy, with a score
\* below p25 and without the runway or the hours; with both, a score below p25
\* of a band of three values gets reschedule
LeaveOutOnlyWhenStated ==
    TestAnalysisDone =>
        /\ Recommends("leave_school_out") =>
              (PolicyUse = "required" /\ BelowP25 /\ ~CanPrepare)
        /\ (PolicyUse = "required" /\ BelowP25 /\ Len(ScoreOnFile.test_mid50) >= 3) =>
              IF CanPrepare THEN Recommends("reschedule")
              ELSE Recommends("leave_school_out")

\* C30: at most one analysis is returned; its task list is non-empty exactly
\* when the recommendation is reschedule; dont_submit occurs only under the
\* optional policies.
C30_TasksIffReschedule ==
    TestAnalysisDone =>
        /\ Len(Analyses) <= 1
        /\ \A i \in 1..Len(Analyses) :
              /\ Analyses[i].tasks # <<>> <=> Analyses[i].recommendation = "reschedule"
              /\ Analyses[i].recommendation \in
                    {"submit", "dont_submit", "reschedule", "leave_school_out"}
              /\ Analyses[i].recommendation = "dont_submit" => PolicyUse \in OptionalUse

\* C30 witness: under an optional policy a score between p25 and p50 with
\* runway and hours gets reschedule, with the three retake tasks.
C30_Witness ==
    /\ TestAnalysisDone
    /\ PolicyUse \in OptionalUse
    /\ Recommends("reschedule")
    /\ Analyses[1].competitiveness = Some("below_competitive")
    /\ Analyses[1].tasks = TestRetakeTasks("SAT")

(***************************************************************************)
(* analyze_portfolio and the clock                                         *)
(*                                                                         *)
(* No operation takes the current date as an argument: _weeks_between and  *)
(* the runway computations call date.today() where they need it.  One      *)
(* request is analysed twice; the date may change once, before, during or  *)
(* after a call, and the generative service may fail between the calls.    *)
(***************************************************************************)
MaxClockItems == 3

\* the day after Today: the date changes at most once in a behaviour
LastDay == Today + 1

\* the dates returned to compute_impact, analyze_gaps and
\* analyze_standardized_tests, in the order they run, by a call that starts
\* on day `now`
ClockReads(now) ==
    LET days == {now, Min(now + 1, LastDay)}
    IN  {r \in days \X days \X days : r[1] <= r[2] /\ r[2] <= r[3]}

\* activities without end date (e2, e6, e7) and one with (e1)
ClockPool == {e \in EvidencePool : e.id \in {"e1", "e2", "e6", "e7"}}
ClockPortfolios ==
    {p \in SeqsUpTo(ClockPool, MaxClockItems) :
        \A i, j \in 1..Len(p) : i # j => p[i] # p[j]}

\* no context, or tests required with a deadline 8 weeks after Today
ClockContexts ==
    {None,
     Some([recommenders_required |-> Some(3), factor_importance |-> None,
           mid50_scores |-> [sat_composite |-> <<1200, 1350, 1500>>,
                             act_composite |-> <<>>],
           test_policy |-> Some([admission_use |-> "required",
                                 latest_submission_date |-> None]),
           application_rounds |-> <<[closing_date |-> Some(DateStr("date", 156))]>>])}
ClockProfiles ==
    {None,
     Some([intended_major |-> Some("Computer Science"), gpa_unweighted |-> Some(31),
           grades_by_subject |-> [subj \in {} |-> ""],
           tests |-> [sat |-> Some([score |-> Some(1100)]), act |-> None]])}

ClockRequests ==
    [portfolio : ClockPortfolios, school_context : ClockContexts,
     student_profile : ClockProfiles, schools : {<<"MIT">>},
     weekly_hours_cap : {DEFAULT_HOURS_CAP}]

\* what a call returns apart from the recommendation sections
ClockView(result) ==
    [scores |-> result.scores, gaps |-> result.gaps,
     standardized_tests |-> result.standardized_tests]

InitClock ==
    /\ op = "analyze_twice"
    /\ req \in ClockRequests
    /\ today = Today
    /\ gpt \in {Answering(reply) : reply \in StructuredReplies}
    /\ resp = None
    /\ lv = None
    /\ pc = "call"

\* POST /portfolio/analyze, first call
AnalyzeFirst ==
    /\ pc = "call"
    /\ op = "analyze_twice"
    /\ \E days \in ClockReads(today) :
          /\ lv' = Some([days |-> days,
                         view |-> ClockView(analyze_portfolio_at(req, days[1], days[2],
                                                                 days[3], gpt).result)])
          /\ today' = days[3]
    /\ pc' = "again"
    /\ UNCHANGED <<op, req, gpt, resp>>

\* the generative service stops answering between the calls: its calls raise
ServiceChanges ==
    /\ pc = "again"
    /\ op = "analyze_twice"
    /\ gpt.mode = "answers"
    /\ gpt' = Failing
    /\ UNCHANGED <<op, req, today, resp, lv, pc>>

\* POST /portfolio/analyze, second call with the same body
AnalyzeAgain ==
    /\ pc = "again"
    /\ op = "analyze_twice"
    /\ \E days \in ClockReads(today) :
          /\ resp' = Some([days |-> days,
                           view |-> ClockView(analyze_portfolio_at(req, days[1], days[2],
                                                                   days[3], gpt).result)])
          /\ today' = days[3]
    /\ pc' = "done"
    /\ UNCHANGED <<op, req, gpt, lv>>

NextClock == AnalyzeFirst \/ ServiceChanges \/ AnalyzeAgain

SpecClock == InitClock /\ [][NextClock]_vars

(***************************************************************************)
(* Properties of the clock                                                 *)
(***************************************************************************)
FirstDone == op = "analyze_twice" /\ pc \in {"again", "done"}
BothDone == op = "analyze_twice" /\ pc = "done"

\* every read of the call returned day d
ReadsOnly(call, d) == \A i \in 1..3 : call.days[i] = d

C23_CallObservesOneDate ==
    FirstDone =>
        \E d \in {Today, LastDay} :
            Val(lv).view = ClockView(analyze_portfolio(req, d, Unavailable).result)

\* the date changed between compute_impact and analyze_gaps, and the call
\* returned scores of the first day with a duration gap of the second
C23_Witness ==
    /\ FirstDone
    /\ Val(lv).days[1] < Val(lv).days[2]
    /\ Val(lv).view.scores = analyze_portfolio(req, Today, Unavailable).result.scores
    /\ Val(lv).view.scores # analyze_portfolio(req, LastDay, Unavailable).result.scores
    /\ DurationGaps(req.portfolio, LastDay) # DurationGaps(req.portfolio, Today)
    /\ \E i \in 1..Len(Val(lv).view.gaps) :
          <<Val(lv).view.gaps[i]>> = DurationGaps(req.portfolio, LastDay)

(***************************************************************************)
(* Calls of coverage_index                                                 *)
(***************************************************************************)
\* lens scores of 0, 2.5, 5 and 10
CoverageScores == {0, 2500, 5000, 10000}
LensScoreMaps == [Lenses -> CoverageScores]

InitCoverage ==
    /\ op = "coverage_index"
    /\ req \in [lens_scores : LensScoreMaps]
    /\ today = Today
    /\ gpt = Unavailable
    /\ resp = None
    /\ lv = None
    /\ pc = "call"

\* `coverage = coverage_index(lens_s) if sum(lens_s.values())>0 else 0.0`
CoverageIndex ==
    /\ pc = "call"
    /\ op = "coverage_index"
    /\ resp' = Some(IF SumOver(req.lens_scores, Lenses) > 0
                    THEN coverage_index(req.lens_scores) ELSE 0)
    /\ pc' = "done"
    /\ UNCHANGED <<op, req, today, gpt, lv>>

NextCoverage == CoverageIndex

SpecCoverage == InitCoverage /\ [][NextCoverage]_vars

CoverageDone == op = "coverage_index" /\ pc = "done"
PositiveLenses(m) == {k \in Lenses : m[k] > 0}
Uniform(m) == \A j, k \in Lenses : m[j] = m[k]

NearlyUniformBelowOne ==
    /\ CoverageDone
    /\ Cardinality({k \in Lenses : req.lens_scores[k] = 10000}) = 5
    /\ Cardinality({k \in Lenses : req.lens_scores[k] = 5000}) = 1
    /\ Val(resp) > 900 /\ Val(resp) < 1000

(***************************************************************************)
(* The fields of the result of analyze_portfolio                           *)
(***************************************************************************)
\* the keys of the returned dict
ResultFields == DOMAIN AnalyzeResult \ {"raises"}

\* C25: a call of analyze that succeeds returns exactly the four fields
\* scores, gaps, recommendations and tasks, with lens_scores among the scores
C25_ResultHasFourFields ==
    AnalyzeDone /\ AnalyzeResult.raises = "" =>
        /\ ResultFields = {"scores", "gaps", "recommendations", "tasks"}
        /\ "lens_scores" \in DOMAIN AnalyzeResult.scores

\* C25 failing case: one school, a profile, no school context and one
\* activity: the call returns seven fields, recommendations and tasks not
\* among them
C25_Witness ==
    /\ AnalyzeDone
    /\ req.schools = <<"MIT">>
    /\ req.school_context = None /\ req.student_profile # None
    /\ Len(req.portfolio) = 1
    /\ AnalyzeResult.raises = ""
    /\ ResultFields = {"scores", "gaps", "critical_improvements", "lens_improvements",
                       "diversity_spike", "alignment_priorities", "standardized_tests"}
    /\ "lens_scores" \in DOMAIN AnalyzeResult.scores

(***************************************************************************)
(* The structure of the gap list                                           *)
(***************************************************************************)
\* the position of a gap type in the order analyze_gaps appends them
TypeRank(t) ==
    CASE t = "lens" -> 1 [] t = "spike" -> 2 [] t = "recs" -> 3
      [] t = "artifacts" -> 4 [] t = "duration" -> 5 [] t = "alignment" -> 6
      [] OTHER -> 0
LensIndex(lens) == CHOOSE i \in 1..Len(LENS_LIST) : LENS_LIST[i] = lens

\* `ctx.recommenders_required or 0` of the request, 0 without a context
RecommendersRequired ==
    IF req.school_context = None THEN 0
    ELSE IF Val(req.school_context).recommenders_required = None THEN 0
    ELSE Val(Val(req.school_context).recommenders_required)

\* C26: the gap list holds its records in the order lens gaps (in the order of
\* the six lenses), spike, recommenders, artifacts, duration, major alignment;
\* a lens has a record iff its score is below 4.0, with severity
\* (4.0 - score)/4.0 to two decimals; there is a spike record of severity 1.0
\* iff no spike theme was detected, and a recommenders record of severity 0.5
\* with the required count iff more than 1 recommender is required; no type
\* but `lens` occurs twice
C26_GapListStructure ==
    GapsDone =>
        /\ \A i \in 1..Len(Gaps) : TypeRank(Gaps[i].type) > 0
        /\ \A i, j \in 1..Len(Gaps) :
              i < j => /\ TypeRank(Gaps[i].type) <= TypeRank(Gaps[j].type)
                       /\ Gaps[i].type = "lens" /\ Gaps[j].type = "lens"
                              => LensIndex(Gaps[i].lens) < LensIndex(Gaps[j].lens)
        /\ \A k \in Lenses :
              (\E i \in GapsOfType("lens") : Gaps[i].lens = k)
                  <=> Val(lv).lens_s[k] < LENS_MIN_SCORE
        /\ \A i \in GapsOfType("lens") :
              Gaps[i].severity =
                  Round2(LENS_MIN_SCORE - Val(lv).lens_s[Gaps[i].lens], LENS_MIN_SCORE)
        /\ GapsOfType("spike") # {} <=> Val(lv).spike.theme = None
        /\ \A i \in GapsOfType("spike") : Gaps[i].severity = 100
        /\ GapsOfType("recs") # {} <=> RecommendersRequired > 1
        /\ \A i \in GapsOfType("recs") :
              Gaps[i].severity = 50 /\ Gaps[i].required = RecommendersRequired
        /\ \A t \in {"spike", "recs", "artifacts", "duration", "alignment"} :
              Cardinality(GapsOfType(t)) <= 1

\* a list with several lens gaps, a lens without gap, and a spike, a
\* recommenders, an artifacts and a duration record behind them
C26_Witness ==
    /\ GapsDone
    /\ Cardinality(GapsOfType("lens")) \in 2..5
    /\ \A t \in {"spike", "recs", "artifacts", "duration"} : GapsOfType(t) # {}
    /\ RecommendersRequired = 3

\* one required recommender gives no recommenders record
OneRecommenderNoRecord ==
    GapsDone /\ RecommendersRequired = 1 => GapsOfType("recs") = {}

(***************************************************************************)
(* Weeks active and hours of one evidence item (compute_impact)            *)
(***************************************************************************)
\* start and end dates up to 15 days before and one day after today, or none
HoursDates == {None} \cup {Some(d) : d \in (Today - 15)..(Today + 1)}
HoursItems ==
    [start_date : HoursDates, end_date : HoursDates,
     hours_total : {None, Some(0), Some(30)}, hours_per_week : {None, Some(0), Some(5)}]

InitHours ==
    /\ op = "compute_impact"
    /\ req \in HoursItems
    /\ today = Today
    /\ gpt = Unavailable
    /\ resp = None
    /\ lv = None
    /\ pc = "call"

\* `weeks_active` and `hours_total` of compute_impact
ComputeHours ==
    /\ pc = "call"
    /\ op = "compute_impact"
    /\ resp' = Some([weeks_active |-> weeks_between(req.start_date, req.end_date, today),
                     hours_total |-> HoursTotal(req, today)])
    /\ pc' = "done"
    /\ UNCHANGED <<op, req, today, gpt, lv>>

NextHours == ComputeHours

SpecHours == InitHours /\ [][NextHours]_vars

HoursDone == op = "compute_impact" /\ pc = "done"
\* days from the start date to the end date, or to today without end date
DaysActive == (IF req.end_date # None THEN Val(req.end_date) ELSE today) - Val(req.start_date)

\* C27: weeks_active is the number of days from start to end (to today without
\* end date) over 7, rounded up, and 1 when that is less than 1 or there is no
\* start date; hours_total is the explicit total when there is one, 0
\* included, else hours_per_week times weeks_active, and 0 without
\* hours_per_week
C27_WeeksAndHours ==
    HoursDone =>
        LET weeks == Val(resp).weeks_active
            hours == Val(resp).hours_total
        IN  /\ weeks >= 1
            /\ req.start_date = None => weeks = 1
            /\ req.start_date # None /\ DaysActive <= 7 => weeks = 1
            /\ req.start_date # None /\ DaysActive > 7 =>
                  7 * weeks >= DaysActive /\ 7 * (weeks - 1) < DaysActive
            /\ req.hours_total # None => hours = Val(req.hours_total)
            /\ req.hours_total = None /\ req.hours_per_week # None =>
                  hours = Val(req.hours_per_week) * weeks
            /\ req.hours_total = None /\ req.hours_per_week = None => hours = 0

\* 15 days without end date are 3 weeks, and 5 hours a week 15 hours
C27_Witness ==
    /\ HoursDone
    /\ req.start_date = Some(today - 15) /\ req.end_date = None
    /\ req.hours_total = None /\ req.hours_per_week = Some(5)
    /\ Val(resp).weeks_active = 3
    /\ Val(resp).hours_total = 15

\* an end date before the start date gives one week, and an explicit total of
\* 0 hours stays 0
EndBeforeStartIsOneWeek ==
    HoursDone /\ req.start_date # None /\ DaysActive < 0 =>
        /\ Val(resp).weeks_active = 1
        /\ req.hours_total = Some(0) => Val(resp).hours_total = 0

(***************************************************************************)
(* Termination of regenerate_tasks_for_section                             *)
(***************************************************************************)
\* C28: every regeneration call returns in the end, for every section, every
\* list of excluded titles and every reply of the generative service: the loop
\* that fills the list up to 3 tasks from the fallback templates ends.  A call
\* that was started has returned; a call in a loop without end has not
C28_RegenerationReturns == RegenCalled => RegenDone

\* C28 failing case: the service answers without a task for the spike gap,
\* whose fallback has no template, and the call stays in its loop
C28_Witness ==
    /\ op = "regenerate_tasks" /\ pc = "loop"
    /\ gpt = Answering(<<>>)
    /\ req.section_type = "critical_improvements"
    /\ req.section_identifier = Some("spike")
    /\ req.exclude_task_titles = <<>>

(***************************************************************************)
(* The test an optional plan is sized for                                  *)
(***************************************************************************)
\* the test, baseline and p50 plan_tests compared for SEND
ComparedTest == SelectTest(req.student_profile, req.school_context)

\* C29: when the decision under an optional policy is PLAN and the student
\* has a score for a test whose band is present, the plan is for the test that
\* was compared for SEND: same test type, same baseline, same p50
C29_PlanForComparedTest ==
    (PlanDone /\ PolicyIs(OptionalUse) /\ Decision = "PLAN"
        /\ (SatCompared \/ ActCompared)) =>
        /\ Val(resp).rationale.test_type = Val(ComparedTest.test_type)
        /\ Val(resp).rationale.baseline = ComparedTest.baseline
        /\ Val(resp).rationale.p50 = Val(ComparedTest.p50)

\* C29 failing case: optional policy, an ACT score below the ACT band's p50, no
\* SAT score, both bands present: the ACT score was compared, and the plan is
\* an SAT plan without baseline
C29_Witness ==
    /\ PlanDone /\ PolicyIs(OptionalUse)
    /\ SatScore = None /\ ActCompared
    /\ Bands.sat_composite # <<>>
    /\ Decision = "PLAN"
    /\ ComparedTest.test_type = Some("ACT")
    /\ Val(resp).rationale.test_type = "SAT"
    /\ Val(resp).rationale.baseline = None
    /\ \A i \in 1..Len(Val(Val(resp).tasks)) : Val(Val(resp).tasks)[i].test_type = "SAT"

\* without an SAT band the plan is for the compared test
PlanForComparedTestWithoutSatBand ==
    (PlanDone /\ PolicyIs(OptionalUse) /\ Decision = "PLAN"
        /\ ActCompared /\ Bands.sat_composite = <<>>) =>
        /\ Val(resp).rationale.test_type = "ACT"
        /\ Val(resp).rationale.baseline = ComparedTest.baseline
        /\ Val(resp).rationale.p50 = Val(ComparedTest.p50)

(***************************************************************************)
(* All operations                                                          *)
(***************************************************************************)
Init == InitPlan \/ InitGaps \/ InitNorm \/ InitSpike \/ InitAlign
          \/ InitTestsNorm \/ InitEligibility \/ InitAnalyze \/ InitRegen
          \/ InitTestAnalysis \/ InitClock \/ InitCoverage \/ InitHours
Next == PlanTests \/ AnalyzePortfolio \/ NormalizeImpacts \/ DetectSpike
          \/ AlignmentForSchool \/ TestsNorm \/ CheckEligibility
          \/ RegenerateTasks \/ AnalyzeStandardizedTests
          \/ AnalyzeFirst \/ ServiceChanges \/ AnalyzeAgain
          \/ CoverageIndex \/ ComputeHours
Spec == Init /\ [][Next]_vars

====
